---- MODULE Spec2Model ----
(***************************************************************************)
(* ValutaTrade Hub: the rate acquisition, aggregation and caching engine.  *)
(* SourceClient (api_clients.py), RateStore (storage.py), UpdateCoordinator*)
(* (updater.py) and RateResolver (usecases.py, RateManager.get_rate), as a *)
(* state machine over the files of the data directory.  Every handler is a *)
(* thread position (pc) moving through the I/O steps of its code.          *)
(***************************************************************************)
EXTENDS Integers, Sequences, FiniteSets, TLC

VARIABLES
    dirExists,   \* the data directory exists
    files,       \* path -> file state (the directory's entries)
    now,         \* datetime.now(), in seconds
    th,          \* thread -> position and locals of the handler it runs
    sched        \* the ParserScheduler object and its BackgroundScheduler

vars == <<dirExists, files, now, th, sched>>

----------------------------------------------------------------------------
(* Bounds of the model *)

\* the clock advances at most this many times
MaxTicks == 1
\* the ledger holds at most this many records
MaxLedger == 3
\* a purchase is made only while the wallet stays within this balance
MaxBalance == 3

----------------------------------------------------------------------------
(* Program constants and configuration *)

\* infra/settings.py: "rates_ttl_seconds": 300
TTL_SECONDS == 300
\* the clock advances one TTL at a time: ages are 0 (fresh) or >= TTL (stale)
TickStep == TTL_SECONDS

BASE_CURRENCY == "USD"
\* the configured code lists (parser.fiat_currencies / the id map), one of each
FIAT_CURRENCIES == <<"EUR">>
CRYPTO_ID_MAP == <<[code |-> "BTC", id |-> "bitcoin"]>>

RATES_FILE_PATH == "data" \o "/" \o "rates.json"
HISTORY_FILE_PATH == "data" \o "/" \o "exchange_rates.json"

\* core/currencies.py: the registry _initialize_default_currencies fills
_currency_registry == {"USD", "EUR", "RUB", "BTC", "ETH", "LTC"}

\* RatesUpdater.clients
Clients == {"coingecko", "exchangerate"}

\* the raw values a provider may send for one currency: a non-positive and a
\* positive one
RawValues == {0, 2}

----------------------------------------------------------------------------
(* Python values *)

\* None, and an optional value that is present
None == <<>>
\* a dict is a function on its keys; {} is the empty function
EmptyDict == <<>>
Put(d, k, v) == [x \in (DOMAIN d) \cup {k} |-> IF x = k THEN v ELSE d[x]]
Get(d, k, default) == IF k \in DOMAIN d THEN d[k] ELSE default
Without(d, k) == [x \in (DOMAIN d) \ {k} |-> d[x]]
len(d) == Cardinality(DOMAIN d)

\* a float: the raw value v is <<v, 1>>, its reciprocal 1 / v is <<1, v>>
Float(v) == <<v, 1>>
Reciprocal(v) == <<1, v>>
Positive(r) == r[1] * r[2] > 0

\* f"{a}_{b}"
PairKey(a, b) == a \o "_" \o b
\* k.startswith("_"): of the keys the program builds only the metadata key does
StartsWithUnderscore(k) == k = "_meta"

\* str.upper() on the codes a caller may pass
upper(code) ==
    CASE code = "btc" -> "BTC"
      [] code = "usd" -> "USD"
      [] OTHER -> code

\* the outcome of a call: a returned value or a raised exception
Return(v) == [exc |-> "", val |-> v]
RaiseWith(e, reason) == [exc |-> e, val |-> None, reason |-> reason]
Raise(e) == RaiseWith(e, "")

\* core/utils.py: datetime.isoformat() and datetime.fromisoformat()
datetime_to_str(dt) == [iso |-> dt]
str_to_datetime(s) == s.iso

----------------------------------------------------------------------------
(* SourceClient: api_clients.py *)

\* what the transport may do with one GET
HttpKinds == {"timeout", "connection", "http429", "http401", "http500",
              "requestexception", "badjson", "ok"}

\* BaseApiClient._make_request: every transport failure is an ApiRequestError
\* the reason _make_request gives for each failure of the transport
RequestFailureReason(kind) ==
    CASE kind = "timeout" -> "Timeout"
      [] kind = "connection" -> "connection error"
      [] kind = "http429" -> "rate limit exceeded"
      [] kind = "http401" -> "invalid API key"
      [] kind = "http500" -> "HTTP error 500"
      [] kind = "requestexception" -> "network error"
      [] kind = "badjson" -> "JSON parsing error"

\* a request that hands a body that is no JSON to the caller as an empty one
_make_request_empty_on_bad_json(resp) ==
    IF resp.kind \in {"ok", "badjson"}
    THEN Return([data |-> IF resp.kind = "ok" THEN resp.data ELSE EmptyDict,
                 meta |-> [status_code |-> 200]])
    ELSE RaiseWith("ApiRequestError", RequestFailureReason(resp.kind))

_make_request(resp) ==
    IF resp.kind = "ok"
    THEN Return([data |-> resp.data, meta |-> [status_code |-> 200]])
    ELSE RaiseWith("ApiRequestError", RequestFailureReason(resp.kind))

\* the bodies CoinGecko may answer with: id -> {"usd": v}, an id without
\* "usd", or no id at all
CoinGeckoBodies ==
    {EmptyDict, [bitcoin |-> EmptyDict]}
        \cup {[bitcoin |-> [usd |-> v]] : v \in RawValues}

\* the bodies ExchangeRate-API may answer with
ExchangeRateBodies ==
    {[result |-> "error"], [result |-> "success"]}
        \cup {[result |-> "success", base_code |-> "USD", conversion_rates |-> cr] :
                cr \in {EmptyDict} \cup {[EUR |-> v] : v \in RawValues}}

Bodies(source) ==
    IF source = "coingecko" THEN CoinGeckoBodies ELSE ExchangeRateBodies

HttpResponses(source) ==
    {[kind |-> k, data |-> None] : k \in HttpKinds \ {"ok"}}
        \cup {[kind |-> "ok", data |-> b] : b \in Bodies(source)}

\* CoinGeckoClient.fetch_rates, the loop over CRYPTO_ID_MAP.items()
RECURSIVE CoinGeckoLoop(_, _, _)
CoinGeckoLoop(data, n, rates) ==
    IF n > Len(CRYPTO_ID_MAP) THEN rates
    ELSE LET crypto_code == CRYPTO_ID_MAP[n].code
             crypto_id == CRYPTO_ID_MAP[n].id
         IN  IF crypto_id \in DOMAIN data /\ "usd" \in DOMAIN data[crypto_id]
             THEN LET usd == data[crypto_id]["usd"]
                      r1 == Put(rates, PairKey(crypto_code, BASE_CURRENCY), Float(usd))
                      r2 == IF usd > 0
                            THEN Put(r1, PairKey(BASE_CURRENCY, crypto_code),
                                     Reciprocal(usd))
                            ELSE r1
                  IN  CoinGeckoLoop(data, n + 1, r2)
             ELSE CoinGeckoLoop(data, n + 1, rates)

CoinGeckoFetch(resp) ==
    LET result == _make_request(resp)
    IN  IF result.exc # "" THEN result
        ELSE Return(Put(CoinGeckoLoop(result.val.data, 1, EmptyDict), "_meta",
                        [source |-> "CoinGecko", request_meta |-> result.val.meta]))

\* ExchangeRateApiClient.fetch_rates, the loop over FIAT_CURRENCIES
RECURSIVE ExchangeRateLoop(_, _, _, _)
ExchangeRateLoop(conversion_rates, base_currency, n, rates) ==
    IF n > Len(FIAT_CURRENCIES) THEN rates
    ELSE LET currency == FIAT_CURRENCIES[n]
         IN  IF currency \in DOMAIN conversion_rates
             THEN LET rate == conversion_rates[currency]
                      r1 == Put(rates, PairKey(currency, base_currency), Float(rate))
                      r2 == IF rate > 0
                            THEN Put(r1, PairKey(base_currency, currency),
                                     Reciprocal(rate))
                            ELSE r1
                  IN  ExchangeRateLoop(conversion_rates, base_currency, n + 1, r2)
             ELSE ExchangeRateLoop(conversion_rates, base_currency, n + 1, rates)

ExchangeRateFetch(resp) ==
    LET result == _make_request(resp)
    IN  IF result.exc # "" THEN result
        ELSE LET data == result.val.data
             IN  IF Get(data, "result", "") # "success"
                 THEN RaiseWith("ApiRequestError", "API error")
                 ELSE LET base_currency == Get(data, "base_code", BASE_CURRENCY)
                          looped == ExchangeRateLoop(
                                        Get(data, "conversion_rates", EmptyDict),
                                        base_currency, 1, EmptyDict)
                          rates == Put(looped, PairKey(base_currency, base_currency),
                                       Float(1))
                      IN  Return(Put(rates, "_meta",
                                     [source |-> "ExchangeRate-API",
                                      request_meta |-> result.val.meta,
                                      base_currency |-> base_currency]))

\* client.fetch_rates() of the named client
fetch_rates(source, resp) ==
    IF source = "coingecko" THEN CoinGeckoFetch(resp) ELSE ExchangeRateFetch(resp)

----------------------------------------------------------------------------
(* The data directory: files and what reading them gives *)

Threads == {"main", "job"}

\* tempfile.mkstemp(dir, prefix, suffix): a fresh name, one per caller
TempName(prefix, t) == "data" \o "/" \o prefix \o t \o ".json"
\* a writer that opens the snapshot file itself
RatesTempInPlace(t) == RATES_FILE_PATH

\* the path save_current_rates / _save_historical_data write before the rename
RatesTemp(t) == TempName(".rates_temp_", t)
\* one fixed name for the ledger's temporary file, whoever writes
HistoryTempShared(t) == TempName(".history_temp_", "main")
HistoryTemp(t) == TempName(".history_temp_", t)

\* DatabaseManager._get_file_path("portfolios")
PORTFOLIOS_FILE_PATH == "data" \o "/" \o "portfolios.json"

Paths ==
    {RATES_FILE_PATH, HISTORY_FILE_PATH, PORTFOLIOS_FILE_PATH}
        \cup {RatesTemp(t) : t \in Threads} \cup {HistoryTemp(t) : t \in Threads}

Missing == [st |-> "missing", doc |-> None]
\* a file json.dump has begun and not finished: a prefix of a document
Truncated == [st |-> "trunc", doc |-> None]
\* a file that is no JSON, and one open() is refused on
Corrupt == [st |-> "corrupt", doc |-> None]
Unreadable == [st |-> "unreadable", doc |-> None]
Complete(doc) == [st |-> "ok", doc |-> doc]

\* os.path.exists
exists(fs, p) == fs[p].st # "missing"

\* open(p, "r") and json.load
json_load(fs, p) ==
    CASE fs[p].st = "ok" -> Return(fs[p].doc)
      [] fs[p].st = "missing" -> Raise("FileNotFoundError")
      [] fs[p].st = "unreadable" -> Raise("PermissionError")
      [] OTHER -> Raise("JSONDecodeError")

\* a write that merges the new pairs into the snapshot already there
os_replace_merging(fs, src, dst) ==
    IF src = dst THEN fs
    ELSE [fs EXCEPT ![dst] = IF dst = RATES_FILE_PATH /\ fs[dst].st = "ok"
                             THEN Complete([fs[src].doc EXCEPT
                                      !.pairs = fs[src].doc.pairs @@ fs[dst].doc.pairs])
                             ELSE fs[src],
                    ![src] = Missing]

\* os.replace(src, dst): dst becomes the file src was, in one step
os_replace(fs, src, dst) ==
    IF src = dst THEN fs ELSE [fs EXCEPT ![dst] = fs[src], ![src] = Missing]

\* RatesStorage.get_current_rates
EmptySnapshot == [pairs |-> EmptyDict, last_refresh |-> None]
get_current_rates(fs) ==
    IF exists(fs, RATES_FILE_PATH)
    THEN LET r == json_load(fs, RATES_FILE_PATH)
         IN  IF r.exc \in {"JSONDecodeError", "FileNotFoundError"}
             THEN Return(EmptySnapshot)
             ELSE r
    ELSE Return(EmptySnapshot)

\* an append that starts from an empty list whatever the file holds
_load_historical_data_afresh(fs) == Return(<<>>)

\* RatesStorage._load_historical_data
_load_historical_data(fs) ==
    IF exists(fs, HISTORY_FILE_PATH)
    THEN LET r == json_load(fs, HISTORY_FILE_PATH)
         IN  IF r.exc \in {"JSONDecodeError", "FileNotFoundError"}
             THEN Return(<<>>)
             ELSE r
    ELSE Return(<<>>)

\* DatabaseManager._get_file_path and DatabaseManager.read
_get_file_path(entity) == "data" \o "/" \o entity \o ".json"
db_read(fs, entity) ==
    IF ~exists(fs, _get_file_path(entity)) THEN Return(<<>>)
    ELSE LET r == json_load(fs, _get_file_path(entity))
         IN  IF r.exc # "" THEN Raise("DatabaseError") ELSE r

\* the keys of a rate map in the order the clients insert them
KeyOrder == <<"BTC_USD", "USD_BTC", "EUR_USD", "USD_EUR", "USD_USD">>
Items(d) == SelectSeq(KeyOrder, LAMBDA k : k \in DOMAIN d)

\* pair.split("_")
split(pair) ==
    CHOOSE p \in _currency_registry \X _currency_registry : PairKey(p[1], p[2]) = pair

\* a filter that lets every key through
clean_rates_all_keys(rates) == rates

\* save_current_rates: the document built from the rates (lines 17-33)
clean_rates(rates) ==
    [k \in {x \in DOMAIN rates : ~StartsWithUnderscore(x)} |-> rates[k]]

SnapshotData(rates, source_meta, timestamp) ==
    [pairs |-> [pair \in DOMAIN clean_rates(rates) |->
                  [rate |-> rates[pair],
                   updated_at |-> datetime_to_str(timestamp),
                   source |-> Get(source_meta, "source", "Unknown")]],
     last_refresh |-> datetime_to_str(timestamp),
     source |-> Get(source_meta, "source", "Unknown")]

\* an id made of the second alone
_generate_record_id_of_second(pair, timestamp) == <<"", timestamp>>

\* RatesStorage._generate_record_id: a digest of the pair and the second
_generate_record_id(pair, timestamp) == <<pair, timestamp>>

\* save_historical_record: the records appended for one rate map (lines 68-93)
HistoricalRecord(pair, rate, source_meta, timestamp) ==
    [id |-> _generate_record_id(pair, timestamp),
     from_currency |-> split(pair)[1],
     to_currency |-> split(pair)[2],
     rate |-> rate,
     timestamp |-> datetime_to_str(timestamp),
     source |-> Get(source_meta, "source", "Unknown"),
     meta |-> [status_code |-> Get(Get(source_meta, "request_meta", EmptyDict),
                                   "status_code", 0),
               base_currency |-> Get(source_meta, "base_currency", "")]]

HistoricalRecords(rates, source_meta, timestamp) ==
    LET keys == Items(clean_rates(rates))
    IN  [n \in 1..Len(keys) |->
            HistoricalRecord(keys[n], rates[keys[n]], source_meta, timestamp)]

----------------------------------------------------------------------------
(* Threads: the handler a thread runs, its position and its locals *)

Idle ==
    [op |-> "idle", pc |-> "idle",
     from |-> "", to |-> "",                     \* get_rate's arguments
     srcs |-> <<>>, i |-> 0,                     \* run_update: sources, loop index
     succ |-> <<>>, failed |-> <<>>, total |-> 0, \* run_update: results
     rates |-> EmptyDict, meta |-> EmptyDict,    \* the rate map in hand
     data |-> None,                              \* the document to dump
     max_age_days |-> 0, removed |-> 0,          \* cleanup_old_records
     user_id |-> 0, amount |-> 0,                \* buy_currency, sell_currency
     wallets |-> EmptyDict, old_balance |-> 0,   \* the portfolio in hand
     res |-> Return(None),                       \* the handler's outcome
     \* history of the call, for the properties:
     fetched |-> <<>>,   \* every fetch_rates call made: source, outcome, and
                         \* how the write-through of what it returned ended
     reads |-> 0,        \* reads of the data files made
     seen |-> "",        \* the state of the file the last snapshot read opened
     amid |-> {},        \* where the other threads stood at that read
     job |-> "",         \* the scheduler's job the handler runs for, if any
     was |-> None,       \* the scheduler as it was when the handler was called
     pre |-> None]       \* the files as they were when the handler was called

\* the argument lists run_update is called with (each source at most once)
SourceLists ==
    {<<"coingecko", "exchangerate">>, <<"exchangerate", "coingecko">>,
     <<"coingecko">>, <<"exchangerate">>, <<"cryptocompare", "coingecko">>}
\* run_update's default: sources is None
DefaultSources == <<"coingecko", "exchangerate">>

\* the codes get_rate is called with: known, lower-case, unknown
RequestCodes == {"USD", "BTC", "btc", "XYZ"}

\* the snapshots writeSnapshot is called with, the empty one included
SnapshotInputs ==
    {EmptyDict,
     [BTC_USD |-> Float(2)],
     [EUR_USD |-> Float(2), USD_EUR |-> Reciprocal(2)],
     [USD_USD |-> Float(1), _meta |-> [source |-> "ExchangeRate-API"]]}
MetaInputs == {[source |-> "Manual"], EmptyDict}
\* the snapshots two racing writers are given
RaceInputs == {rates \in SnapshotInputs : "_meta" \notin DOMAIN rates}

Called(t, op, pc) ==
    [Idle EXCEPT !.op = op, !.pc = pc,
                 !.pre = [rates |-> files[RATES_FILE_PATH],
                          hist |-> files[HISTORY_FILE_PATH]]]

\* the handler ends: its outcome stays until the caller takes it
Done(s, res) == [s EXCEPT !.pc = "done", !.res = res]

\* the caller takes the outcome
Finish(t) ==
    /\ th[t].pc = "done"
    /\ th' = [th EXCEPT ![t] = Idle]
    /\ UNCHANGED <<dirExists, files, now, sched>>

\* time passes between two handlers: a handler, whose requests time out after
\* 10 seconds, runs within one value of the clock
Tick ==
    /\ \A t \in Threads : th[t].op = "idle"
    /\ now < MaxTicks * TickStep
    /\ now' = now + TickStep
    /\ UNCHANGED <<dirExists, files, th, sched>>

----------------------------------------------------------------------------
(* RatesUpdater.run_update: updater.py lines 23-91 *)

CallUpdate(t, sources) ==
    /\ th[t].op = "idle"
    /\ th' = [th EXCEPT ![t] = [Called(t, "update", "ru_loop") EXCEPT
                                   !.srcs = sources, !.i = 1]]
    /\ UNCHANGED <<dirExists, files, now, sched>>

\* a failure that ends the loop instead of going on to the next source
RuFailedBreaks(s) ==
    [s EXCEPT !.failed = Append(@, s.srcs[s.i]), !.i = Len(s.srcs) + 1,
              !.pc = "ru_loop",
              !.rates = EmptyDict, !.meta = EmptyDict, !.data = None]

\* results["failed_sources"].append(source_name), and on to the next source
RuFailed(s) ==
    [s EXCEPT !.failed = Append(@, s.srcs[s.i]), !.i = @ + 1, !.pc = "ru_loop",
              !.rates = EmptyDict, !.meta = EmptyDict, !.data = None]

\* the count taken before the metadata entry is popped
RuSucceededCountsMeta(s) ==
    [s EXCEPT !.succ = Append(@, s.srcs[s.i]), !.total = @ + len(s.rates) + 1,
              !.i = @ + 1, !.pc = "ru_loop",
              !.rates = EmptyDict, !.meta = EmptyDict, !.data = None]

\* lines 63-66: the source is recorded as successful
RuSucceeded(s) ==
    [s EXCEPT !.succ = Append(@, s.srcs[s.i]), !.total = @ + len(s.rates),
              !.i = @ + 1, !.pc = "ru_loop",
              !.rates = EmptyDict, !.meta = EmptyDict, !.data = None]

\* the history of the call notes how a write of the last fetch's rates ended
Logged(s, what, how) ==
    [s EXCEPT !.fetched[Len(s.fetched)][what] = how]

Results(s) ==
    [successful_sources |-> s.succ, failed_sources |-> s.failed,
     total_rates |-> s.total]

\* a loop that records an unknown source as failed
RuLoopUnknownFails(t) ==
    LET s == th[t] IN
    /\ s.pc = "ru_loop"
    /\ th' = [th EXCEPT ![t] =
                IF s.i > Len(s.srcs)
                THEN IF s.op = "update" THEN Done(s, Return(Results(s)))
                     ELSE [s EXCEPT !.pc = "gr_reread"]
                ELSE IF s.srcs[s.i] \notin Clients
                     THEN RuFailed(s)
                     ELSE [s EXCEPT !.pc = "ru_fetch"]]
    /\ UNCHANGED <<dirExists, files, now, sched>>

\* the head of the loop: the end of the run, an unknown source, or a fetch
RuLoop(t) ==
    LET s == th[t] IN
    /\ s.pc = "ru_loop"
    /\ th' = [th EXCEPT ![t] =
                IF s.i > Len(s.srcs)
                THEN IF s.op = "update" THEN Done(s, Return(Results(s)))
                     ELSE [s EXCEPT !.pc = "gr_reread"]
                ELSE IF s.srcs[s.i] \notin Clients
                     THEN [s EXCEPT !.i = @ + 1]
                     ELSE [s EXCEPT !.pc = "ru_fetch"]]
    /\ UNCHANGED <<dirExists, files, now, sched>>

\* lines 45-54 and 71-77: the fetch and what is made of its outcome
RuFetch(t) ==
    LET s == th[t] IN
    /\ s.pc = "ru_fetch"
    /\ \E resp \in HttpResponses(s.srcs[s.i]) :
         LET r == fetch_rates(s.srcs[s.i], resp)
             f == [s EXCEPT !.fetched = Append(@, [source |-> s.srcs[s.i],
                                                   exc |-> r.exc, rates |-> r.val,
                                                   snapshot |-> "none",
                                                   ledger |-> "none"])]
         IN  th' = [th EXCEPT ![t] =
                      IF r.exc # "" THEN RuFailed(f)
                      ELSE IF len(r.val) > 0 /\ len(r.val) > 1
                           THEN [f EXCEPT !.meta = Get(r.val, "_meta", EmptyDict),
                                          !.rates = Without(r.val, "_meta"),
                                          !.pc = "scr_begin"]
                           ELSE RuFailed(f)]
    /\ UNCHANGED <<dirExists, files, now, sched>>

----------------------------------------------------------------------------
(* RatesStorage.save_current_rates: storage.py lines 13-56 *)

CallWrite(t, rates, source_meta) ==
    /\ th[t].op = "idle"
    /\ th' = [th EXCEPT ![t] = [Called(t, "write", "scr_begin") EXCEPT
                                   !.rates = rates, !.meta = source_meta]]
    /\ UNCHANGED <<dirExists, files, now, sched>>

\* save_current_rates ends, normally (exc = "") or raising
ScrEnd(s, exc) ==
    IF s.op = "write"
    THEN Done(s, IF exc = "" THEN Return(None) ELSE Raise(exc))
    ELSE IF exc = ""
         THEN [Logged(s, "snapshot", "ok") EXCEPT !.pc = "shr_load", !.data = None]
         ELSE RuFailed(Logged(s, "snapshot", exc))

\* lines 14-41: the early return, the document, and mkstemp in the directory
ScrBegin(t) ==
    LET s == th[t] IN
    /\ s.pc = "scr_begin"
    /\ IF len(s.rates) = 0
       THEN /\ th' = [th EXCEPT ![t] = ScrEnd(s, "")]
            /\ UNCHANGED files
       ELSE IF ~dirExists
            THEN /\ th' = [th EXCEPT ![t] = ScrEnd(s, "RuntimeError")]
                 /\ UNCHANGED files
            ELSE /\ th' = [th EXCEPT ![t] =
                             [s EXCEPT !.pc = "scr_dump",
                                       !.data = SnapshotData(s.rates, s.meta, now)]]
                 /\ files' = [files EXCEPT ![RatesTemp(t)] = Truncated]
    /\ UNCHANGED <<dirExists, now, sched>>

\* a handler that raises without unlinking the temporary file
ScrDumpKeepsTemp(t) ==
    LET s == th[t] IN
    /\ s.pc = "scr_dump"
    /\ \/ /\ files' = [files EXCEPT ![RatesTemp(t)] = Complete(s.data)]
          /\ th' = [th EXCEPT ![t] = [s EXCEPT !.pc = "scr_replace"]]
       \/ /\ th' = [th EXCEPT ![t] = ScrEnd(s, "RuntimeError")]
          /\ UNCHANGED files
    /\ UNCHANGED <<dirExists, now, sched>>

\* lines 43-53: json.dump into the temporary file completes, or fails part
\* way and the handler unlinks the temporary file and raises
ScrDump(t) ==
    LET s == th[t] IN
    /\ s.pc = "scr_dump"
    /\ \/ /\ files' = [files EXCEPT ![RatesTemp(t)] = Complete(s.data)]
          /\ th' = [th EXCEPT ![t] = [s EXCEPT !.pc = "scr_replace"]]
       \/ /\ files' = [files EXCEPT ![RatesTemp(t)] = Missing]
          /\ th' = [th EXCEPT ![t] = ScrEnd(s, "RuntimeError")]
    /\ UNCHANGED <<dirExists, now, sched>>

\* line 46: os.replace(temp_path, config.RATES_FILE_PATH)
ScrReplace(t) ==
    LET s == th[t] IN
    /\ s.pc = "scr_replace"
    /\ files' = os_replace(files, RatesTemp(t), RATES_FILE_PATH)
    /\ th' = [th EXCEPT ![t] = ScrEnd(s, "")]
    /\ UNCHANGED <<dirExists, now, sched>>

----------------------------------------------------------------------------
(* RatesStorage.save_historical_record: storage.py lines 58-131 *)

\* appendHistory called by itself
CallAppend(t, rates, source_meta) ==
    /\ th[t].op = "idle"
    /\ th' = [th EXCEPT ![t] = [Called(t, "append", "shr_load") EXCEPT
                                   !.rates = rates, !.meta = source_meta]]
    /\ UNCHANGED <<dirExists, files, now, sched>>

\* an append whose failure does not reach run_update's except clause
ShrEndFailureSwallowed(s, exc) ==
    IF s.op = "append"
    THEN Done(s, IF exc = "" THEN Return(None) ELSE Raise(exc))
    ELSE RuSucceeded(Logged(s, "ledger", IF exc = "" THEN "ok" ELSE exc))

\* save_historical_record ends, normally (exc = "") or raising
ShrEnd(s, exc) ==
    IF s.op = "append"
    THEN Done(s, IF exc = "" THEN Return(None) ELSE Raise(exc))
    ELSE IF exc = "" THEN RuSucceeded(Logged(s, "ledger", "ok"))
         ELSE RuFailed(Logged(s, "ledger", exc))

\* lines 60-95 and 109-115: the ledger is loaded, the records are appended in
\* memory, the directory is made and the temporary file created
ShrLoad(t) ==
    LET s == th[t]
        loaded == _load_historical_data(files)
    IN
    /\ s.pc = "shr_load"
    /\ IF len(s.rates) = 0
       THEN /\ th' = [th EXCEPT ![t] = ShrEnd(s, "")]
            /\ UNCHANGED <<files, dirExists>>
       ELSE IF loaded.exc # ""
            THEN /\ th' = [th EXCEPT ![t] = ShrEnd(s, loaded.exc)]
                 /\ UNCHANGED <<files, dirExists>>
            ELSE /\ Len(loaded.val) + len(s.rates) <= MaxLedger
                 /\ th' = [th EXCEPT ![t] =
                             [s EXCEPT !.pc = "shr_dump",
                                       !.data = loaded.val \o
                                           HistoricalRecords(s.rates, s.meta, now)]]
                 /\ dirExists' = TRUE
                 /\ files' = [files EXCEPT ![HistoryTemp(t)] = Truncated]
    /\ UNCHANGED <<now, sched>>

\* lines 117-128: json.dump completes, or fails and the temporary file goes
ShrDump(t) ==
    LET s == th[t] IN
    /\ s.pc = "shr_dump"
    /\ \/ /\ files' = [files EXCEPT ![HistoryTemp(t)] = Complete(s.data)]
          /\ th' = [th EXCEPT ![t] = [s EXCEPT !.pc = "shr_replace"]]
       \/ /\ files' = [files EXCEPT ![HistoryTemp(t)] = Missing]
          /\ th' = [th EXCEPT ![t] = ShrEnd(s, "RuntimeError")]
    /\ UNCHANGED <<dirExists, now, sched>>

\* line 121: os.replace(temp_path, config.HISTORY_FILE_PATH)
ShrReplace(t) ==
    LET s == th[t] IN
    /\ s.pc = "shr_replace"
    /\ files' = os_replace(files, HistoryTemp(t), HISTORY_FILE_PATH)
    /\ th' = [th EXCEPT ![t] = ShrEnd(s, "")]
    /\ UNCHANGED <<dirExists, now, sched>>

----------------------------------------------------------------------------
(* RatesStorage.cleanup_old_records: storage.py lines 148-168 *)

\* line 154: max_age_days * 24 * 60 * 60
DAY_SECONDS == 86400
cutoff_date(clock, max_age_days) == clock - max_age_days * DAY_SECONDS

\* lines 156-159: the records kept, in the order of the ledger
filtered_data(data, clock, max_age_days) ==
    SelectSeq(data, LAMBDA record :
        str_to_datetime(record.timestamp) > cutoff_date(clock, max_age_days))

\* the ages the scheduler's job and a caller of the store prune with
PruneDays == {30, 1}

CallPrune(t, max_age_days) ==
    /\ th[t].op = "idle"
    /\ th' = [th EXCEPT ![t] = [Called(t, "prune", "cor_load") EXCEPT
                                   !.max_age_days = max_age_days]]
    /\ UNCHANGED <<dirExists, files, now, sched>>

\* lines 150-162 and 109-115: the ledger is loaded and filtered; if records
\* went, the directory is made and the temporary file created
CorLoad(t) ==
    LET s == th[t]
        loaded == _load_historical_data(files)
        kept == filtered_data(loaded.val, now, s.max_age_days)
    IN
    /\ s.pc = "cor_load"
    /\ IF loaded.exc # ""
       THEN /\ th' = [th EXCEPT ![t] = Done(s, Raise("RuntimeError"))]
            /\ UNCHANGED <<files, dirExists>>
       ELSE IF Len(loaded.val) = 0 \/ ~(Len(kept) < Len(loaded.val))
            THEN /\ th' = [th EXCEPT ![t] = Done(s, Return(0))]
                 /\ UNCHANGED <<files, dirExists>>
            ELSE /\ th' = [th EXCEPT ![t] =
                             [s EXCEPT !.pc = "cor_dump", !.data = kept,
                                       !.removed = Len(loaded.val) - Len(kept)]]
                 /\ dirExists' = TRUE
                 /\ files' = [files EXCEPT ![HistoryTemp(t)] = Truncated]
    /\ UNCHANGED <<now, sched>>

\* lines 117-131 and 165-166: json.dump completes, or fails: the temporary
\* file goes and the error is raised as RuntimeError
CorDump(t) ==
    LET s == th[t] IN
    /\ s.pc = "cor_dump"
    /\ \/ /\ files' = [files EXCEPT ![HistoryTemp(t)] = Complete(s.data)]
          /\ th' = [th EXCEPT ![t] = [s EXCEPT !.pc = "cor_replace"]]
       \/ /\ files' = [files EXCEPT ![HistoryTemp(t)] = Missing]
          /\ th' = [th EXCEPT ![t] = Done(s, Raise("RuntimeError"))]
    /\ UNCHANGED <<dirExists, now, sched>>

\* lines 121 and 163: os.replace, and the number of records removed
CorReplace(t) ==
    LET s == th[t] IN
    /\ s.pc = "cor_replace"
    /\ files' = os_replace(files, HistoryTemp(t), HISTORY_FILE_PATH)
    /\ th' = [th EXCEPT ![t] = Done(s, Return(s.removed))]
    /\ UNCHANGED <<dirExists, now, sched>>

----------------------------------------------------------------------------
(* readSnapshot: one call of RatesStorage.get_current_rates *)

ReadSnapshot(t) ==
    /\ th[t].op = "idle"
    /\ th' = [th EXCEPT ![t] =
                Done([Called(t, "read", "gcr") EXCEPT
                          !.reads = 1, !.seen = files[RATES_FILE_PATH].st,
                          !.amid = {th[w].pc : w \in Threads \ {t}}],
                     get_current_rates(files))]
    /\ UNCHANGED <<dirExists, files, now, sched>>

----------------------------------------------------------------------------
(* RateManager.get_rate: usecases.py lines 218-276 *)

\* a registry that answers for every code
get_currency_lenient(code) == Return(upper(code))

\* core/currencies.py get_currency
get_currency(code) ==
    IF upper(code) \notin _currency_registry
    THEN Raise("CurrencyNotFoundError")
    ELSE Return(upper(code))

currency_pair(s) == PairKey(upper(s.from), upper(s.to))

\* current_rates.get("pairs") and currency_pair in current_rates["pairs"]
InPairs(current_rates, pair) ==
    /\ len(Get(current_rates, "pairs", EmptyDict)) > 0
    /\ pair \in DOMAIN current_rates["pairs"]

\* the dict get_rate returns for an entry of the snapshot
RateInfo(rate_info, default_source) ==
    [rate |-> Get(rate_info, "rate", None),
     timestamp |-> str_to_datetime(rate_info["updated_at"]),
     source |-> Get(rate_info, "source", default_source)]

CallResolve(t, from_currency, to_currency) ==
    /\ th[t].op = "idle"
    /\ th' = [th EXCEPT ![t] = [Called(t, "resolve", "gr_check") EXCEPT
                                   !.from = from_currency, !.to = to_currency]]
    /\ UNCHANGED <<dirExists, files, now, sched>>

\* the lookup without the shortcut for the identity pair
get_rate_check_no_identity(s, clock) ==
    IF get_currency(upper(s.from)).exc # ""
    THEN Done(s, get_currency(upper(s.from)))
    ELSE IF get_currency(upper(s.to)).exc # ""
    THEN Done(s, get_currency(upper(s.to)))
    ELSE [s EXCEPT !.pc = "gr_snapshot"]

\* lines 219-230: the two codes are looked up, then the identity pair
get_rate_check(s, clock) ==
    IF get_currency(upper(s.from)).exc # ""
    THEN Done(s, get_currency(upper(s.from)))
    ELSE IF get_currency(upper(s.to)).exc # ""
    THEN Done(s, get_currency(upper(s.to)))
    ELSE IF upper(s.from) = upper(s.to)
    THEN Done(s, Return([rate |-> Float(1), timestamp |-> clock,
                         source |-> "System"]))
    ELSE [s EXCEPT !.pc = "gr_snapshot"]

GrCheck(t) ==
    /\ th[t].pc = "gr_check"
    /\ th' = [th EXCEPT ![t] = get_rate_check(th[t], now)]
    /\ UNCHANGED <<dirExists, files, now, sched>>

\* a snapshot lookup that lets an entry expire after the TTL
get_rate_snapshot_with_ttl(s, fs, clock) ==
    LET current_rates == get_current_rates(fs)
    IN  IF current_rates.exc # "" THEN Done(s, current_rates)
        ELSE IF /\ InPairs(current_rates.val, currency_pair(s))
                /\ clock - str_to_datetime(
                       current_rates.val["pairs"][currency_pair(s)]["updated_at"])
                     < TTL_SECONDS
        THEN Done(s, Return(RateInfo(
                 current_rates.val["pairs"][currency_pair(s)], "Cache")))
        ELSE [s EXCEPT !.pc = "gr_db"]

\* a resolver that answers from a copy of the snapshot it loaded at its start
get_rate_snapshot_private_copy(s, fs, clock) ==
    LET current_rates ==
            Return(SnapshotData([BTC_USD |-> Float(2), USD_BTC |-> Reciprocal(2)],
                                [source |-> "CoinGecko"], 0))
    IN  IF InPairs(current_rates.val, currency_pair(s))
        THEN Done(s, Return(RateInfo(
                 current_rates.val["pairs"][currency_pair(s)], "Cache")))
        ELSE [s EXCEPT !.pc = "gr_db"]

\* lines 232-244: the snapshot file is read; a present pair is returned as is
get_rate_snapshot(s, fs, clock) ==
    LET current_rates == get_current_rates(fs)
    IN  IF current_rates.exc # "" THEN Done(s, current_rates)
        ELSE IF InPairs(current_rates.val, currency_pair(s))
        THEN Done(s, Return(RateInfo(
                 current_rates.val["pairs"][currency_pair(s)], "Cache")))
        ELSE [s EXCEPT !.pc = "gr_db"]

GrSnapshot(t) ==
    /\ th[t].pc = "gr_snapshot"
    /\ th' = [th EXCEPT ![t] =
                get_rate_snapshot(
                    [th[t] EXCEPT !.reads = @ + 1,
                                  !.seen = files[RATES_FILE_PATH].st],
                    files, now)]
    /\ UNCHANGED <<dirExists, files, now, sched>>

\* a TTL test that still accepts an entry exactly as old as the TTL
get_rate_db_inclusive(s, fs, clock) ==
    LET rates_data == db_read(fs, "rates")
        rate_info == Get(rates_data.val, currency_pair(s), None)
    IN  IF rates_data.exc # "" THEN Done(s, rates_data)
        ELSE IF /\ currency_pair(s) \in DOMAIN rates_data.val
                /\ clock - str_to_datetime(rate_info["updated_at"]) <= TTL_SECONDS
        THEN Done(s, Return(
                 [rate |-> Get(rate_info, "rate", None),
                  timestamp |-> str_to_datetime(rate_info["updated_at"]),
                  source |-> Get(rates_data.val, "source", "Cache")]))
        ELSE [s EXCEPT !.pc = "ru_loop", !.srcs = DefaultSources, !.i = 1]

\* lines 246-263: db.read("rates"), the TTL, and the call of run_update()
get_rate_db(s, fs, clock) ==
    LET rates_data == db_read(fs, "rates")
        rate_info == Get(rates_data.val, currency_pair(s), None)
    IN  IF rates_data.exc # "" THEN Done(s, rates_data)
        ELSE IF /\ currency_pair(s) \in DOMAIN rates_data.val
                /\ clock - str_to_datetime(rate_info["updated_at"]) < TTL_SECONDS
        THEN Done(s, Return(
                 [rate |-> Get(rate_info, "rate", None),
                  timestamp |-> str_to_datetime(rate_info["updated_at"]),
                  source |-> Get(rates_data.val, "source", "Cache")]))
        ELSE [s EXCEPT !.pc = "ru_loop", !.srcs = DefaultSources, !.i = 1]

GrDb(t) ==
    /\ th[t].pc = "gr_db"
    /\ th' = [th EXCEPT ![t] =
                get_rate_db([th[t] EXCEPT !.reads = @ + 1], files, now)]
    /\ UNCHANGED <<dirExists, files, now, sched>>

\* lines 265-276: the snapshot is read again; any exception of the try block
\* and the absent pair both end as ApiRequestError
GrReread(t) ==
    LET s == [th[t] EXCEPT !.reads = @ + 1, !.seen = files[RATES_FILE_PATH].st]
        current_rates == get_current_rates(files)
    IN
    /\ s.pc = "gr_reread"
    /\ th' = [th EXCEPT ![t] =
                IF current_rates.exc # ""
                THEN Done(s, RaiseWith("ApiRequestError", current_rates.exc))
                ELSE IF InPairs(current_rates.val, currency_pair(s))
                THEN Done(s, Return(RateInfo(
                         current_rates.val["pairs"][currency_pair(s)], "API")))
                ELSE Done(s, RaiseWith("ApiRequestError", "unavailable"))]
    /\ UNCHANGED <<dirExists, files, now, sched>>

----------------------------------------------------------------------------
(* The initial states and the specifications *)

\* what an earlier run of the program left: a CoinGecko snapshot and a ledger
\* of one record, both written at time 0
InitSnapshot ==
    SnapshotData([BTC_USD |-> Float(2), USD_BTC |-> Reciprocal(2)],
                 [source |-> "CoinGecko"], 0)
InitLedger == HistoricalRecords([BTC_USD |-> Float(0)], [source |-> "CoinGecko"], 0)

InitRatesFiles == {Missing, Corrupt, Unreadable, Complete(InitSnapshot)}
InitHistoryFiles == {Missing, Corrupt, Unreadable, Complete(InitLedger)}

\* ParserScheduler.__init__, scheduler.py lines 11-15; `others` holds the jobs
\* of BackgroundSchedulers the object no longer refers to that still run
ParserScheduler ==
    [is_running |-> FALSE, scheduler |-> None, others |-> <<>>, immediate |-> 0]

Init ==
    /\ now = 0
    /\ th = [t \in Threads |-> Idle]
    /\ sched = ParserScheduler
    /\ dirExists \in BOOLEAN
    /\ \E r \in InitRatesFiles, h \in InitHistoryFiles :
         /\ ~dirExists => r = Missing /\ h = Missing
         /\ files = [p \in Paths |->
                       IF p = RATES_FILE_PATH THEN r
                       ELSE IF p = HISTORY_FILE_PATH THEN h ELSE Missing]

\* the interactive process: one thread, one handler at a time
Main == "main"
\* the BackgroundScheduler's executor: the thread the jobs run on
Worker == "job"

----------------------------------------------------------------------------
(* ParserScheduler: scheduler.py *)

\* config.py line 24
UPDATE_INTERVAL_MINUTES == 5
\* scheduler.py line 37: hours=24
CLEANUP_INTERVAL_HOURS == 24

\* add_job with an interval trigger: the first run is one interval from now
IntervalJob(id, seconds, clock) ==
    [id |-> id, trigger |-> "interval", seconds |-> seconds,
     next_run_time |-> clock + seconds]
\* add_job with a date trigger and run_date=None: one run, now
DateJob(id, clock) ==
    [id |-> id, trigger |-> "date", seconds |-> 0, next_run_time |-> clock]

\* a start() that adds the two recurring jobs only
added_jobs_recurring_only(clock) ==
    <<IntervalJob("rates_update", UPDATE_INTERVAL_MINUTES * 60, clock),
      IntervalJob("data_cleanup", CLEANUP_INTERVAL_HOURS * 3600, clock)>>

\* lines 23-58: the jobs start() adds to the new BackgroundScheduler
added_jobs(clock) ==
    <<IntervalJob("rates_update", UPDATE_INTERVAL_MINUTES * 60, clock),
      IntervalJob("data_cleanup", CLEANUP_INTERVAL_HOURS * 3600, clock),
      DateJob("initial_update", clock)>>

\* the jobs of a BackgroundScheduler that was started and not shut down
LiveJobs(scheduler) ==
    IF scheduler # None /\ scheduler.state = "running"
    THEN scheduler.jobs ELSE <<>>

\* a start() without the test of is_running
start_unguarded(s, clock) ==
    [is_running |-> TRUE,
     scheduler |-> [state |-> "running", jobs |-> added_jobs(clock)],
     others |-> s.others \o LiveJobs(s.scheduler),
     immediate |-> 0]

\* ParserScheduler.start, lines 17-58: self.scheduler is bound to a new
\* BackgroundScheduler; one it referred to before is not shut down by that
start(s, clock) ==
    IF s.is_running THEN s
    ELSE [is_running |-> TRUE,
          scheduler |-> [state |-> "running", jobs |-> added_jobs(clock)],
          others |-> s.others \o LiveJobs(s.scheduler),
          immediate |-> 0]

\* a stop() that clears is_running without shutting the scheduler down
shutdown_skipped(scheduler) == scheduler

\* BackgroundScheduler.shutdown(): no job is submitted any more and the job
\* store is emptied
shutdown(scheduler) == [state |-> "stopped", jobs |-> <<>>]

\* the methods RatesUpdater has: updater.py lines 10-91
RatesUpdaterMethods == {"__init__", "run_update"}
\* self.updater.<name>: the lookup of an attribute of the RatesUpdater
getattr_updater(name) ==
    IF name \in RatesUpdaterMethods THEN Return(name)
    ELSE Raise("AttributeError")

\* ParserScheduler.get_status, lines 115-132
get_status(s) ==
    IF s.scheduler = None \/ ~s.is_running
    THEN Return([status |-> "stopped", is_running |-> FALSE])
    ELSE LET get_update_status == getattr_updater("get_update_status")
         IN  IF get_update_status.exc # "" THEN get_update_status
             ELSE Return([status |-> "running", is_running |-> TRUE,
                          jobs_count |-> Len(s.scheduler.jobs)])

CallStart(t) ==
    /\ th[t].op = "idle"
    /\ sched' = start(sched, now)
    /\ th' = [th EXCEPT ![t] =
                Done([Called(t, "start", "start") EXCEPT !.was = sched],
                     Return(None))]
    /\ UNCHANGED <<dirExists, files, now>>

\* ParserScheduler.stop, lines 70-72: nothing to do, or shutdown() is called
CallStop(t) ==
    /\ th[t].op = "idle"
    /\ LET s == [Called(t, "stop", "stop_join") EXCEPT
                     !.was = sched,
                     !.amid = {th[w].pc : w \in Threads \ {t}}]
       IN  IF sched.scheduler # None /\ sched.is_running
           THEN /\ sched' = [sched EXCEPT !.scheduler = shutdown(@)]
                /\ th' = [th EXCEPT ![t] = s]
           ELSE /\ th' = [th EXCEPT ![t] = Done(s, Return(None))]
                /\ UNCHANGED sched
    /\ UNCHANGED <<dirExists, files, now>>

\* lines 72-73: shutdown() waits for the job that is executing (wait=True),
\* then is_running is cleared
StopJoin(t) ==
    /\ th[t].pc = "stop_join"
    /\ \A w \in Threads \ {t} : th[w].job = "" \/ th[w].pc = "done"
    /\ sched' = [sched EXCEPT !.is_running = FALSE]
    /\ th' = [th EXCEPT ![t] = Done(th[t], Return(None))]
    /\ UNCHANGED <<dirExists, files, now>>

CallStatus(t) ==
    /\ th[t].op = "idle"
    /\ th' = [th EXCEPT ![t] =
                Done([Called(t, "status", "status") EXCEPT !.was = sched],
                     get_status(sched))]
    /\ UNCHANGED <<dirExists, files, now, sched>>

\* a job whose run time has come
Due(job, clock) == job.next_run_time <= clock

\* the latest run time of a due job (coalesced), and the job store after the
\* run was submitted: an interval job gets its next run time, a date job goes
RunTime(job, clock) ==
    IF job.trigger = "interval"
    THEN job.next_run_time
             + ((clock - job.next_run_time) \div job.seconds) * job.seconds
    ELSE job.next_run_time

Submitted(jobs, n, clock) ==
    IF jobs[n].trigger = "interval"
    THEN [jobs EXCEPT ![n].next_run_time = RunTime(jobs[n], clock) + jobs[n].seconds]
    ELSE SubSeq(jobs, 1, n - 1) \o SubSeq(jobs, n + 1, Len(jobs))

\* the running scheduler submits job n to the executor, whose thread is free
Fires(t, n) ==
    /\ th[t].op = "idle"
    /\ sched.scheduler # None
    /\ sched.scheduler.state = "running"
    /\ n \in DOMAIN sched.scheduler.jobs
    /\ Due(sched.scheduler.jobs[n], now)
    /\ sched' = [sched EXCEPT
                    !.scheduler.jobs = Submitted(@, n, now),
                    !.immediate = IF sched.scheduler.jobs[n].id = "initial_update"
                                  THEN @ + 1 ELSE @]

\* ParserScheduler._scheduled_update, lines 77-96: run_update() over the
\* default sources; its result is logged
FireUpdate(t, n) ==
    /\ Fires(t, n)
    /\ sched.scheduler.jobs[n].id \in {"rates_update", "initial_update"}
    /\ th' = [th EXCEPT ![t] =
                [Called(t, "update", "ru_loop") EXCEPT
                    !.srcs = DefaultSources, !.i = 1,
                    !.job = sched.scheduler.jobs[n].id, !.was = sched]]
    /\ UNCHANGED <<dirExists, files, now>>

\* ParserScheduler._scheduled_cleanup, lines 98-113: the call of
\* self.updater.cleanup_old_data and the except clause that logs its error
FireCleanup(t, n) ==
    /\ Fires(t, n)
    /\ sched.scheduler.jobs[n].id = "data_cleanup"
    /\ LET s == [Called(t, "cleanup", "cleanup") EXCEPT
                     !.job = "data_cleanup", !.was = sched,
                     !.max_age_days = 30]
           cleanup_old_data == getattr_updater("cleanup_old_data")
       IN  IF cleanup_old_data.exc # ""
           THEN /\ th' = [th EXCEPT ![t] =
                            Done(s, Return([action |-> "SCHEDULED_CLEANUP_ERROR",
                                            error |-> cleanup_old_data.exc]))]
           ELSE /\ th' = [th EXCEPT ![t] = [s EXCEPT !.pc = "cor_load"]]
    /\ UNCHANGED <<dirExists, files, now>>

\* no job is waiting to be submitted
NoJobDue ==
    \A n \in DOMAIN LiveJobs(sched.scheduler) :
        ~Due(LiveJobs(sched.scheduler)[n], now)

\* a day passes between two handlers, once the due jobs were submitted
DayPasses ==
    /\ NoJobDue
    /\ \A t \in Threads : th[t].op = "idle"
    /\ now < MaxTicks * TickStep
    /\ now' = now + CLEANUP_INTERVAL_HOURS * 3600
    /\ UNCHANGED <<dirExists, files, th, sched>>

\* the steps of save_current_rates and of save_historical_record
WriteSteps(t) ==
    \/ ScrBegin(t)
    \/ ScrDump(t)
    \/ ScrReplace(t)

AppendSteps(t) ==
    \/ ShrLoad(t)
    \/ ShrDump(t)
    \/ ShrReplace(t)

UpdateSteps(t) ==
    \/ RuLoop(t)
    \/ RuFetch(t)
    \/ WriteSteps(t)
    \/ AppendSteps(t)

\* updates only: the coordinator called by the command line
NextUpdate ==
    \/ Tick
    \/ \E sources \in SourceLists : CallUpdate(Main, sources)
    \/ UpdateSteps(Main)
    \/ Finish(Main)

SpecUpdate == Init /\ [][NextUpdate]_vars

ResolveSteps(t) ==
    \/ GrCheck(t)
    \/ GrSnapshot(t)
    \/ GrDb(t)
    \/ GrReread(t)

\* lookups only: the resolver, and the refreshes it triggers itself
NextResolve ==
    \/ Tick
    \/ \E f \in RequestCodes, c \in RequestCodes : CallResolve(Main, f, c)
    \/ ResolveSteps(Main)
    \/ UpdateSteps(Main)
    \/ Finish(Main)

SpecResolve == Init /\ [][NextResolve]_vars

\* data/rates.json as the pair-keyed "rates" entity db.read("rates") looks
\* into: the pairs at the top level, no "pairs" key
PairKeyedRates ==
    [BTC_USD |-> [rate |-> Float(3), updated_at |-> datetime_to_str(0)],
     source |-> "RatesCache"]

\* a data directory holding nothing, a snapshot, or the pair-keyed entity
InitLookup ==
    /\ now = 0
    /\ th = [t \in Threads |-> Idle]
    /\ sched = ParserScheduler
    /\ dirExists = TRUE
    /\ \E r \in {Missing, Complete(InitSnapshot), Complete(PairKeyedRates)},
          h \in {Missing, Complete(InitLedger)} :
         files = [p \in Paths |->
                    IF p = RATES_FILE_PATH THEN r
                    ELSE IF p = HISTORY_FILE_PATH THEN h ELSE Missing]

\* the lookup tiers of the resolver over that directory
SpecLookup == InitLookup /\ [][NextResolve]_vars

\* ledgers of records appended 31, 30 and 1 days before the start, in any
\* order
RecordAges == {31, 30, 1}
AgedRecord(age) ==
    HistoricalRecord("BTC_USD", Float(2), [source |-> "CoinGecko"],
                     0 - age * DAY_SECONDS)
AgedLedgers ==
    {[n \in DOMAIN ages |-> AgedRecord(ages[n])] :
        ages \in {q \in UNION {[1..n -> RecordAges] : n \in 0..3} :
                     \A a \in DOMAIN q, b \in DOMAIN q : q[a] = q[b] => a = b}}

InitPrune ==
    /\ now = 0
    /\ th = [t \in Threads |-> Idle]
    /\ sched = ParserScheduler
    /\ dirExists \in BOOLEAN
    /\ \E r \in {Missing, Complete(InitSnapshot)},
          h \in {Missing, Corrupt, Unreadable} \cup {Complete(l) : l \in AgedLedgers} :
         /\ ~dirExists => r = Missing /\ h = Missing
         /\ files = [p \in Paths |->
                       IF p = RATES_FILE_PATH THEN r
                       ELSE IF p = HISTORY_FILE_PATH THEN h ELSE Missing]

PruneSteps(t) ==
    \/ CorLoad(t)
    \/ CorDump(t)
    \/ CorReplace(t)

\* the ledger pruned by one caller
NextPrune ==
    \/ Tick
    \/ \E max_age_days \in PruneDays : CallPrune(Main, max_age_days)
    \/ PruneSteps(Main)
    \/ Finish(Main)

SpecPrune == InitPrune /\ [][NextPrune]_vars

\* the rate maps appendHistory is called with by itself
AppendInputs ==
    {EmptyDict, [EUR_USD |-> Float(2), USD_EUR |-> Reciprocal(2)]}

\* one caller after another: updates, lookups and appends, no pruning
NextLedger ==
    \/ Tick
    \/ CallUpdate(Main, <<"coingecko">>)
    \/ CallResolve(Main, "BTC", "USD")
    \/ \E rates \in AppendInputs : CallAppend(Main, rates, [source |-> "Manual"])
    \/ ResolveSteps(Main)
    \/ UpdateSteps(Main)
    \/ Finish(Main)

SpecLedger == Init /\ [][NextLedger]_vars

\* one caller after another: snapshots written, then read and looked up
NextFresh ==
    \/ Tick
    \/ \E rates \in RaceInputs : CallWrite(Main, rates, [source |-> "Manual"])
    \/ ReadSnapshot(Main)
    \/ CallResolve(Main, "BTC", "USD")
    \/ ResolveSteps(Main)
    \/ UpdateSteps(Main)
    \/ Finish(Main)

SpecFresh == Init /\ [][NextFresh]_vars

\* a data directory with a snapshot and a ledger whose record is 31 days old
InitSched ==
    /\ now = 0
    /\ th = [t \in Threads |-> Idle]
    /\ sched = ParserScheduler
    /\ dirExists = TRUE
    /\ files = [p \in Paths |->
                  IF p = RATES_FILE_PATH THEN Complete(InitSnapshot)
                  ELSE IF p = HISTORY_FILE_PATH THEN Complete(<<AgedRecord(31)>>)
                  ELSE Missing]

\* the scheduler driven by the interactive thread, its jobs on the worker
NextSched ==
    \/ DayPasses
    \/ CallStart(Main)
    \/ CallStop(Main)
    \/ StopJoin(Main)
    \/ CallStatus(Main)
    \/ Finish(Main)
    \/ \E n \in 1..3 : FireUpdate(Worker, n)
    \/ \E n \in 1..3 : FireCleanup(Worker, n)
    \/ UpdateSteps(Worker)
    \/ Finish(Worker)

SpecSched == InitSched /\ [][NextSched]_vars

\* the scheduler started and stopped within one value of the clock
NextStart ==
    \/ CallStart(Main)
    \/ CallStop(Main)
    \/ StopJoin(Main)
    \/ Finish(Main)
    \/ \E n \in 1..3 : FireUpdate(Worker, n)
    \/ UpdateSteps(Worker)
    \/ Finish(Worker)

\* the BackgroundScheduler's thread submits a job that stays due, and the
\* executor's thread runs the job it was given
SpecStart ==
    /\ InitSched
    /\ [][NextStart]_vars
    /\ WF_vars(\E n \in 1..3 : FireUpdate(Worker, n))
    /\ WF_vars(UpdateSteps(Worker))
    /\ WF_vars(Finish(Worker))

\* the rate maps two racing callers of appendHistory are given
RaceAppends ==
    {[BTC_USD |-> Float(3)], [EUR_USD |-> Float(2), USD_EUR |-> Reciprocal(2)]}

\* the ledger under two callers with no lock between them
NextAppendRace ==
    \/ \E t \in Threads :
         \/ \E rates \in RaceAppends : CallAppend(t, rates, [source |-> "Manual"])
         \/ AppendSteps(t)
         \/ Finish(t)

SpecAppendRace == Init /\ [][NextAppendRace]_vars

\* the store alone: snapshots written and read by one caller
NextStore ==
    \/ Tick
    \/ \E rates \in SnapshotInputs, m \in MetaInputs : CallWrite(Main, rates, m)
    \/ ReadSnapshot(Main)
    \/ WriteSteps(Main)
    \/ Finish(Main)

SpecStore == Init /\ [][NextStore]_vars

\* the store under two callers with no lock between them (the scheduler's job
\* thread and the interactive thread)
NextRace ==
    \/ Tick
    \/ \E t \in Threads :
         \/ \E rates \in RaceInputs : CallWrite(t, rates, [source |-> "Manual"])
         \/ ReadSnapshot(t)
         \/ WriteSteps(t)
         \/ Finish(t)

SpecRace == Init /\ [][NextRace]_vars

\* the interactive process: every handler, in any order
Next ==
    \/ Tick
    \/ \E sources \in SourceLists : CallUpdate(Main, sources)
    \/ \E f \in RequestCodes, c \in RequestCodes : CallResolve(Main, f, c)
    \/ \E rates \in SnapshotInputs, m \in MetaInputs : CallWrite(Main, rates, m)
    \/ ReadSnapshot(Main)
    \/ ResolveSteps(Main)
    \/ UpdateSteps(Main)
    \/ Finish(Main)

Spec == Init /\ [][Next]_vars

----------------------------------------------------------------------------
(* Properties of the update coordinator, verified under SpecUpdate *)

InSeq(x, q) == \E n \in 1..Len(q) : q[n] = x

\* run_update has returned to the caller of thread t
UpdateDone(t) == th[t].op = "update" /\ th[t].pc = "done"

\* what one fetch of the history did
FetchFailed(f) == f.exc # ""
ReturnedPairs(f) == (DOMAIN f.rates) \ {"_meta"}
FetchGave(f) == f.exc = "" /\ ReturnedPairs(f) # {}
Persisted(f) == f.snapshot = "ok" /\ f.ledger = "ok"

\* a run over the two configured providers, each once
TwoProviders(s) ==
    /\ Len(s.srcs) = 2
    /\ {s.srcs[1], s.srcs[2]} = Clients
    /\ Len(s.fetched) = 2

\* what C1 promises of a failing fetch a and a succeeding fetch b
ReportedApart(s, a, b) ==
    /\ InSeq(s.srcs[a], s.res.val.failed_sources)
    /\ ~InSeq(s.srcs[a], s.res.val.successful_sources)
    /\ InSeq(s.srcs[b], s.res.val.successful_sources)
    /\ ~InSeq(s.srcs[b], s.res.val.failed_sources)
    /\ s.res.val.total_rates = Cardinality(ReturnedPairs(s.fetched[b]))

\* C1 as stated: over two configured providers, when one fetch fails and the
\* other returns a non-empty rate map, in either order, the failing provider
\* is in failedSources only, the other in successfulSources only, and
\* totalRatesMerged is the number of pairs the other returned.
C1_Original ==
    \A t \in Threads :
        (UpdateDone(t) /\ TwoProviders(th[t])) =>
            \A a \in 1..2, b \in 1..2 :
                (/\ a # b
                 /\ FetchFailed(th[t].fetched[a])
                 /\ FetchGave(th[t].fetched[b]))
                    => ReportedApart(th[t], a, b)

\* what run_update reports of a failing fetch a and a succeeding fetch b
\* whose snapshot replace or ledger append did not complete
ReportedBothFailed(s, a, b) ==
    /\ InSeq(s.srcs[a], s.res.val.failed_sources)
    /\ InSeq(s.srcs[b], s.res.val.failed_sources)
    /\ s.res.val.successful_sources = <<>>
    /\ s.res.val.total_rates = 0

\* C1 amended: the failing provider is in failedSources only; the provider
\* whose fetch returned a non-empty rate map is in successfulSources only,
\* with totalRatesMerged its pair count, exactly when its snapshot replace and
\* its ledger append both completed, and otherwise it is in failedSources as
\* well and totalRatesMerged is 0.
C1_PartialFailureReported ==
    \A t \in Threads :
        (UpdateDone(t) /\ TwoProviders(th[t])) =>
            \A a \in 1..2, b \in 1..2 :
                (/\ a # b
                 /\ FetchFailed(th[t].fetched[a])
                 /\ FetchGave(th[t].fetched[b]))
                    => IF Persisted(th[t].fetched[b])
                       THEN ReportedApart(th[t], a, b)
                       ELSE ReportedBothFailed(th[t], a, b)

C1_Witness ==
    \E t \in Threads :
        /\ UpdateDone(t)
        /\ th[t].srcs = <<"coingecko", "exchangerate">>
        /\ Len(th[t].fetched) = 2
        /\ FetchFailed(th[t].fetched[1])
        /\ FetchGave(th[t].fetched[2])
        /\ Persisted(th[t].fetched[2])
        /\ th[t].res.val.total_rates = 3

\* the sources fetched so far, in the order of the fetches
FetchedSources(s) == [n \in 1..Len(s.fetched) |-> s.fetched[n].source]
Configured(q) == SelectSeq(q, LAMBDA x : x \in Clients)
\* how many entries of the request the loop has taken up
TakenUp(s) ==
    IF s.pc \in {"scr_begin", "scr_dump", "scr_replace",
                 "shr_load", "shr_dump", "shr_replace"}
    THEN s.i
    ELSE s.i - 1

\* C2: during one runUpdate every requested configured source is fetched
\* exactly once, in request order, whatever happened to the sources before
\* it: at every point of the run the fetches made are those of the configured
\* sources the loop has taken up, and at its end those of the whole request.
C2_EachSourceFetchedOnce ==
    \A t \in Threads :
        th[t].op = "update" =>
            /\ FetchedSources(th[t]) = Configured(SubSeq(th[t].srcs, 1, TakenUp(th[t])))
            /\ th[t].pc = "done" => TakenUp(th[t]) = Len(th[t].srcs)

C2_Witness ==
    \E t \in Threads :
        /\ UpdateDone(t)
        /\ Len(th[t].fetched) = 2
        /\ th[t].fetched[1].exc = ""
        /\ th[t].fetched[1].snapshot = "RuntimeError"
        /\ th[t].fetched[2].exc = ""
        /\ th[t].fetched[2].snapshot = "ok"
        /\ th[t].fetched[2].ledger = "RuntimeError"

\* the history entry of the last source recorded as successful
LastSuccessful(s) ==
    CHOOSE f \in {s.fetched[n] : n \in 1..Len(s.fetched)} :
        f.source = s.res.val.successful_sources[Len(s.res.val.successful_sources)]

\* C3: after a runUpdate in which several sources succeeded, the persisted
\* snapshot holds exactly the pairs, with the rates, that the last successful
\* source returned: nothing of an earlier source is left in it.
C3_LastWriterWins ==
    \A t \in Threads :
        (UpdateDone(t) /\ Len(th[t].res.val.successful_sources) >= 2) =>
            /\ files[RATES_FILE_PATH].st = "ok"
            /\ DOMAIN files[RATES_FILE_PATH].doc.pairs
                   = ReturnedPairs(LastSuccessful(th[t]))
            /\ \A k \in ReturnedPairs(LastSuccessful(th[t])) :
                   files[RATES_FILE_PATH].doc.pairs[k].rate
                       = LastSuccessful(th[t]).rates[k]

C3_Witness ==
    \E t \in Threads :
        /\ UpdateDone(t)
        /\ th[t].res.val.successful_sources = <<"coingecko", "exchangerate">>
        /\ "BTC_USD" \in ReturnedPairs(th[t].fetched[1])
        /\ "BTC_USD" \notin DOMAIN files[RATES_FILE_PATH].doc.pairs
        /\ "EUR_USD" \in DOMAIN files[RATES_FILE_PATH].doc.pairs

----------------------------------------------------------------------------
(* Properties of the rate store, verified under SpecStore and SpecRace *)

WriteDone(t) == th[t].op = "write" /\ th[t].pc = "done"
ReadDone(t) == th[t].op = "read" /\ th[t].pc = "done"

\* the files with the snapshot file as it was when thread t's handler began
FilesBefore(t) == [files EXCEPT ![RATES_FILE_PATH] = th[t].pre.rates]

\* C4: when writeSnapshot fails while writing its temporary file, the
\* temporary file is gone, the failure is reported to the caller, and the
\* snapshot file is the one of before the call, so that a readSnapshot made
\* next returns what it would have returned before the call.
C4_FailedWriteKeepsSnapshot ==
    \A t \in Threads :
        (WriteDone(t) /\ th[t].res.exc # "") =>
            /\ th[t].res.exc = "RuntimeError"
            /\ files[RatesTemp(t)] = Missing
            /\ files[RATES_FILE_PATH] = th[t].pre.rates
            /\ get_current_rates(files) = get_current_rates(FilesBefore(t))

C4_Witness ==
    \E t \in Threads :
        /\ WriteDone(t)
        /\ th[t].res.exc = "RuntimeError"
        /\ dirExists
        /\ th[t].data # None
        /\ th[t].pre.rates = Complete(InitSnapshot)
        /\ get_current_rates(files) = Return(InitSnapshot)

\* the documents a writer can have completed, and the one found at the start
TimeValues == {n * TickStep : n \in 0..MaxTicks}
WrittenSnapshots ==
    {SnapshotData(rates, m, ts) :
        rates \in SnapshotInputs \ {EmptyDict}, m \in MetaInputs, ts \in TimeValues}
        \cup {InitSnapshot}

\* C5: under any interleaving of the steps of writeSnapshot with a
\* readSnapshot, a read of a snapshot file that can be opened never finds a
\* partially written file, and returns the empty snapshot or a document some
\* writer wrote in full.
C5_ReadsNeverPartial ==
    \A t \in Threads :
        (ReadDone(t) /\ th[t].seen # "unreadable") =>
            /\ th[t].seen # "trunc"
            /\ th[t].res.exc = ""
            /\ th[t].res.val \in {EmptySnapshot} \cup WrittenSnapshots

C5_Witness ==
    \E t \in Threads, w \in Threads :
        /\ ReadDone(t)
        /\ th[t].amid = {"scr_dump"}
        /\ th[w].op = "write"
        /\ th[w].pc = "done"
        /\ th[w].res.exc = ""
        /\ th[t].res.val \in WrittenSnapshots
        /\ th[t].res.val # files[RATES_FILE_PATH].doc

\* a rate map writeSnapshot accepts: pair keys only, no metadata entry
WellFormed(rates) == \A k \in DOMAIN rates : ~StartsWithUnderscore(k)

\* the snapshot a read returns holds exactly the rates of the map
SameRates(snapshot, rates) ==
    /\ DOMAIN snapshot.pairs = DOMAIN rates
    /\ \A k \in DOMAIN rates : snapshot.pairs[k].rate = rates[k]

\* C6 as stated: after writeSnapshot(S) has returned, readSnapshot returns
\* the pairs of S with their rates, for every well-formed S, the empty one
\* included, whatever was persisted before.
C6_Original ==
    \A t \in Threads :
        (WriteDone(t) /\ th[t].res.exc = "" /\ WellFormed(th[t].rates)) =>
            /\ get_current_rates(files).exc = ""
            /\ SameRates(get_current_rates(files).val, th[t].rates)

\* C7 as stated: readSnapshot never fails; on a missing, unreadable or
\* corrupt file it returns the empty snapshot, and otherwise the snapshot
\* last written.
C7_Original ==
    \A t \in Threads :
        ReadDone(t) =>
            /\ th[t].res.exc = ""
            /\ th[t].seen \in {"missing", "unreadable", "corrupt"}
                   => th[t].res.val = EmptySnapshot
            /\ th[t].seen = "ok" => th[t].res.val = files[RATES_FILE_PATH].doc

----------------------------------------------------------------------------
(* Properties of the resolver, verified under SpecResolve *)

ResolveDone(t) == th[t].op = "resolve" /\ th[t].pc = "done"
Known(code) == upper(code) \in _currency_registry

\* the snapshot and the ledger are as they were when the handler was called
StoresUntouched(t) ==
    /\ files[RATES_FILE_PATH] = th[t].pre.rates
    /\ files[HISTORY_FILE_PATH] = th[t].pre.hist

\* no data file was read and no provider was asked
NoInputOutput(t) ==
    /\ th[t].reads = 0
    /\ th[t].seen = ""
    /\ th[t].fetched = <<>>

\* C8: resolve(X, X) for a known X returns rate 1.0 with source "System" in
\* every state of the store, without reading the snapshot or the secondary
\* cache and without asking a provider, and leaves snapshot and ledger as
\* they were.
C8_IdentityShortcut ==
    \A t \in Threads :
        (/\ ResolveDone(t)
         /\ Known(th[t].from)
         /\ upper(th[t].from) = upper(th[t].to)) =>
            /\ th[t].res = Return([rate |-> Float(1), timestamp |-> now,
                                   source |-> "System"])
            /\ NoInputOutput(t)
            /\ StoresUntouched(t)

C8_Witness ==
    \E t \in Threads :
        /\ ResolveDone(t)
        /\ th[t].from = "btc"
        /\ th[t].to = "BTC"
        /\ files[RATES_FILE_PATH] = Unreadable
        /\ files[HISTORY_FILE_PATH] = Corrupt
        /\ th[t].res.val.source = "System"

\* C9: resolve with an unknown code in either position, the two equal
\* included, fails with CurrencyNotFound before any file is read and without
\* a provider being asked, and leaves snapshot and ledger as they were.
C9_UnknownCodeFailsFirst ==
    \A t \in Threads :
        (ResolveDone(t) /\ (~Known(th[t].from) \/ ~Known(th[t].to))) =>
            /\ th[t].res.exc = "CurrencyNotFoundError"
            /\ NoInputOutput(t)
            /\ StoresUntouched(t)

C9_Witness ==
    \E t \in Threads :
        /\ ResolveDone(t)
        /\ th[t].from = "XYZ"
        /\ th[t].to = "XYZ"
        /\ th[t].res.exc = "CurrencyNotFoundError"
        /\ files[RATES_FILE_PATH] = Unreadable

\* the entry of the pair asked for in the snapshot found at the call
StoredEntry(t) == th[t].pre.rates.doc.pairs[currency_pair(th[t])]
SnapshotHolds(t) ==
    /\ th[t].pre.rates.st = "ok"
    /\ currency_pair(th[t]) \in DOMAIN th[t].pre.rates.doc.pairs

\* C10: when the pair asked for is in the snapshot, resolve returns exactly
\* the rate, updatedAt and source stored there, however old the entry is,
\* after the one read of the snapshot: the secondary cache is not read, no
\* runUpdate is started, and snapshot and ledger stay as they were.
C10_SnapshotHitReturnedAsStored ==
    \A t \in Threads :
        (/\ ResolveDone(t)
         /\ Known(th[t].from) /\ Known(th[t].to)
         /\ upper(th[t].from) # upper(th[t].to)
         /\ SnapshotHolds(t)) =>
            /\ th[t].res = Return([rate |-> StoredEntry(t).rate,
                                   timestamp |-> str_to_datetime(StoredEntry(t).updated_at),
                                   source |-> StoredEntry(t).source])
            /\ th[t].reads = 1
            /\ th[t].fetched = <<>>
            /\ StoresUntouched(t)

C10_Witness ==
    \E t \in Threads :
        /\ ResolveDone(t)
        /\ th[t].from = "btc"
        /\ th[t].to = "USD"
        /\ SnapshotHolds(t)
        /\ now - str_to_datetime(StoredEntry(t).updated_at) >= TTL_SECONDS
        /\ th[t].res.val.rate = Float(2)

----------------------------------------------------------------------------
(* Properties of the resolver's lookup tiers, verified under SpecLookup and
   SpecResolve *)

\* the call is for two known, distinct codes
KnownDistinct(t) ==
    /\ Known(th[t].from) /\ Known(th[t].to)
    /\ upper(th[t].from) # upper(th[t].to)

\* the pair asked for is absent from the snapshot found at the call
SnapshotMisses(t) ==
    /\ th[t].pre.rates.st \in {"ok", "missing"}
    /\ ~InPairs(th[t].pre.rates.doc, currency_pair(th[t]))

\* the entry of the pair in the store db.read("rates") opens, as found at
\* the call
SecondaryHas(t) ==
    /\ th[t].pre.rates.st = "ok"
    /\ currency_pair(th[t]) \in DOMAIN th[t].pre.rates.doc
SecondaryEntry(t) == th[t].pre.rates.doc[currency_pair(th[t])]
SecondaryAge(t) == now - str_to_datetime(SecondaryEntry(t).updated_at)

\* the call ended by returning that entry; the call went on to run_update
ReturnedSecondary(t) ==
    /\ th[t].res.exc = ""
    /\ th[t].reads = 2
    /\ th[t].srcs = <<>>
    /\ th[t].res.val.rate = SecondaryEntry(t).rate
    /\ th[t].res.val.timestamp = str_to_datetime(SecondaryEntry(t).updated_at)
RefreshAttempted(t) == th[t].srcs = DefaultSources

\* C11: when the pair is absent from the snapshot, resolve returns the
\* secondary-cache entry of the pair if and only if the entry exists and is
\* younger than the TTL; an entry as old as the TTL or older is not what
\* resolve returns, and resolve has gone on to runUpdate instead.
C11_SecondaryOnlyWhenFresh ==
    \A t \in Threads :
        (ResolveDone(t) /\ KnownDistinct(t) /\ SnapshotMisses(t)) =>
            /\ (SecondaryHas(t) /\ SecondaryAge(t) < TTL_SECONDS)
                   <=> (SecondaryHas(t) /\ ReturnedSecondary(t))
            /\ (SecondaryHas(t) /\ SecondaryAge(t) >= TTL_SECONDS)
                   => /\ RefreshAttempted(t)
                      /\ Len(th[t].fetched) = 2
                      /\ th[t].res.exc = "" =>
                             th[t].res.val.timestamp
                                 # str_to_datetime(SecondaryEntry(t).updated_at)

C11_Witness ==
    \E t \in Threads :
        /\ ResolveDone(t)
        /\ th[t].from = "BTC" /\ th[t].to = "USD"
        /\ th[t].pre.rates = Complete(PairKeyedRates)
        /\ SecondaryAge(t) = TTL_SECONDS
        /\ RefreshAttempted(t)
        /\ th[t].res.exc = ""
        /\ th[t].res.val.source = "CoinGecko"

\* the snapshot as get_current_rates presents the file found at the call
\* lacks the pair, and the "rates" entity holds no fresh entry of it
AllCachesMiss(t) ==
    /\ th[t].pre.rates.st \in {"ok", "missing", "corrupt"}
    /\ ~InPairs(th[t].pre.rates.doc, currency_pair(th[t]))
    /\ ~(SecondaryHas(t) /\ SecondaryAge(t) < TTL_SECONDS)

\* the snapshot file as it is now holds the pair asked for
SnapshotNowHolds(t) ==
    /\ files[RATES_FILE_PATH].st = "ok"
    /\ InPairs(files[RATES_FILE_PATH].doc, currency_pair(th[t]))

\* C12 as stated: when neither the snapshot nor a fresh secondary-cache
\* entry has the pair, resolve calls runUpdate once with all configured
\* sources (each fetched once), reads the snapshot again, and returns the
\* pair's entry if and only if the snapshot after the refresh holds the pair.
C12_Original ==
    \A t \in Threads :
        (ResolveDone(t) /\ KnownDistinct(t) /\ AllCachesMiss(t)) =>
            /\ RefreshAttempted(t)
            /\ FetchedSources(th[t]) = DefaultSources
            /\ th[t].reads = 3
            /\ th[t].res.exc = "" <=> SnapshotNowHolds(t)
            /\ th[t].res.exc = "" =>
                   th[t].res.val.rate
                       = files[RATES_FILE_PATH].doc.pairs[currency_pair(th[t])].rate

\* every tier was tried and the pair is still absent after the refresh
TiersExhausted(t) ==
    /\ RefreshAttempted(t)
    /\ th[t].reads = 3
    /\ ~SnapshotNowHolds(t)

\* C13 as stated: when every tier is exhausted resolve fails with an error
\* kind of its own, which is not ApiRequestFailed; ApiRequestFailed is
\* raised only when the refresh resolve started has itself failed.
C13_Original ==
    \A t \in Threads :
        (ResolveDone(t) /\ KnownDistinct(t)) =>
            /\ TiersExhausted(t) =>
                   th[t].res.exc \notin {"", "ApiRequestError"}
            /\ th[t].res.exc = "ApiRequestError" =>
                   (RefreshAttempted(t) /\ th[t].succ = <<>>)

----------------------------------------------------------------------------
(* Properties of the persisted rates and of the clients' rate maps, verified
   under SpecUpdate *)

\* the entries of the snapshot file and the records of the ledger file
SnapshotEntries ==
    IF files[RATES_FILE_PATH].st = "ok"
    THEN {files[RATES_FILE_PATH].doc.pairs[k] :
              k \in DOMAIN files[RATES_FILE_PATH].doc.pairs}
    ELSE {}
LedgerOf(file) == IF file.st = "ok" THEN file.doc ELSE <<>>
LedgerRecords ==
    {LedgerOf(files[HISTORY_FILE_PATH])[n] :
         n \in 1..Len(LedgerOf(files[HISTORY_FILE_PATH]))}
\* the records the ledger held before the program was started
FoundRecords == {InitLedger[n] : n \in 1..Len(InitLedger)}

\* C14 as stated: in every reachable state every entry of the snapshot and
\* every record the program has put into the ledger has rate > 0; a zero or
\* negative rate of a provider is never written by runUpdate.
C14_Original ==
    /\ \A e \in SnapshotEntries : Positive(e.rate)
    /\ \A r \in LedgerRecords \ FoundRecords : Positive(r.rate)

\* the pair key of the opposite direction
ReversePair(pair) == PairKey(split(pair)[2], split(pair)[1])
ClosedUnderDirection(keys) == \A k \in keys : ReversePair(k) \in keys

\* C15 as stated: every rate map a client returns holds, for each pair key
\* A_B in it, the key B_A as well, whatever raw value the provider sent, and
\* so does every snapshot written from a provider's rate map.
C15_Original ==
    /\ \A t \in Threads :
           \A n \in 1..Len(th[t].fetched) :
               th[t].fetched[n].exc = ""
                   => ClosedUnderDirection(ReturnedPairs(th[t].fetched[n]))
    /\ files[RATES_FILE_PATH].st = "ok"
           => ClosedUnderDirection(DOMAIN files[RATES_FILE_PATH].doc.pairs)

----------------------------------------------------------------------------
(* Properties of pruning, verified under SpecPrune *)

PruneDone(t) == th[t].op = "prune" /\ th[t].pc = "done"

\* the record is older than now - maxAgeDays
Older(record, max_age_days) ==
    str_to_datetime(record.timestamp) < cutoff_date(now, max_age_days)
NotOlder(ledger, max_age_days) ==
    SelectSeq(ledger, LAMBDA record : ~Older(record, max_age_days))

\* C16 as stated: a pruneHistory(maxAgeDays) that returns has removed from
\* the ledger exactly the records older than now - maxAgeDays, has kept all
\* others in their order, and returns the number of records removed.
C16_Original ==
    \A t \in Threads :
        (PruneDone(t) /\ th[t].res.exc = "" /\ th[t].pre.hist.st = "ok") =>
            /\ LedgerOf(files[HISTORY_FILE_PATH])
                   = NotOlder(th[t].pre.hist.doc, th[t].max_age_days)
            /\ th[t].res.val
                   = Len(th[t].pre.hist.doc)
                       - Len(NotOlder(th[t].pre.hist.doc, th[t].max_age_days))

\* C17 as stated: when no record is older than the cutoff, or the ledger is
\* missing, empty or corrupt, pruneHistory returns 0 and leaves the ledger
\* file untouched; it rewrites the ledger only if a record was removed, and
\* it never modifies the snapshot.
C17_Original ==
    \A t \in Threads :
        PruneDone(t) =>
            /\ (\/ th[t].pre.hist.st \in {"missing", "corrupt"}
                \/ /\ th[t].pre.hist.st = "ok"
                   /\ NotOlder(th[t].pre.hist.doc, th[t].max_age_days)
                          = th[t].pre.hist.doc)
                   => /\ th[t].res = Return(0)
                      /\ files[HISTORY_FILE_PATH] = th[t].pre.hist
            /\ files[HISTORY_FILE_PATH] # th[t].pre.hist
                   => (th[t].res.exc = "" /\ th[t].res.val >= 1)
            /\ files[RATES_FILE_PATH] = th[t].pre.rates

----------------------------------------------------------------------------
(* Properties of the ledger, verified under SpecLedger *)

IsPrefix(p, q) == Len(p) <= Len(q) /\ SubSeq(q, 1, Len(p)) = p
AppendDone(t) == th[t].op = "append" /\ th[t].pc = "done"

\* C18: in a sequential execution of runUpdate, resolve and appendHistory the
\* ledger at every point of an operation has the ledger found at its call as
\* a prefix; an appendHistory that returns has added exactly the records of
\* its rate map, one per pair; and on a missing or corrupt ledger it does not
\* fail on the ledger, and what it writes is exactly the new records.
C18_LedgerAppendOnly ==
    \A t \in Threads :
        /\ th[t].op \in {"update", "resolve", "append"} =>
               IsPrefix(LedgerOf(th[t].pre.hist), LedgerOf(files[HISTORY_FILE_PATH]))
        /\ (AppendDone(t) /\ th[t].res.exc = "") =>
               /\ LedgerOf(files[HISTORY_FILE_PATH])
                      = LedgerOf(th[t].pre.hist)
                          \o HistoricalRecords(th[t].rates, th[t].meta, now)
               /\ Len(LedgerOf(files[HISTORY_FILE_PATH]))
                      = Len(LedgerOf(th[t].pre.hist)) + len(clean_rates(th[t].rates))
        /\ (AppendDone(t) /\ th[t].pre.hist.st \in {"missing", "corrupt"}) =>
               /\ th[t].res.exc # "" => th[t].data # None
               /\ th[t].res.exc = "" =>
                      LedgerOf(files[HISTORY_FILE_PATH])
                          = HistoricalRecords(th[t].rates, th[t].meta, now)

C18_Witness ==
    \E t \in Threads :
        /\ AppendDone(t)
        /\ th[t].res.exc = ""
        /\ th[t].pre.hist.st = "ok"
        /\ Len(LedgerOf(th[t].pre.hist)) = 1
        /\ len(th[t].rates) = 2
        /\ Len(LedgerOf(files[HISTORY_FILE_PATH])) = 3

----------------------------------------------------------------------------
(* Properties of reads after writes, verified under SpecFresh *)

\* C19: a readSnapshot or resolve made after a write to the snapshot has
\* completed answers from the snapshot file as it is at the call, which is
\* the one written last: the read returns that document, and a resolve for
\* a pair it holds returns its entry for the pair, not one of an earlier
\* snapshot.
C19_ReadsSeeLastWrite ==
    \A t \in Threads :
        /\ (ReadDone(t) /\ th[t].pre.rates.st = "ok") =>
               th[t].res = Return(th[t].pre.rates.doc)
        /\ (ResolveDone(t) /\ KnownDistinct(t) /\ SnapshotHolds(t)) =>
               /\ th[t].res.exc = ""
               /\ th[t].res.val.rate = StoredEntry(t).rate
               /\ th[t].res.val.timestamp
                      = str_to_datetime(th[t].pre.rates.doc.last_refresh)
               /\ th[t].res.val.source = th[t].pre.rates.doc.source

C19_Witness ==
    \E t \in Threads :
        /\ ResolveDone(t)
        /\ th[t].from = "BTC" /\ th[t].to = "USD"
        /\ th[t].pre.rates
               = Complete(SnapshotData([BTC_USD |-> Float(2)],
                                       [source |-> "Manual"], TickStep))
        /\ th[t].res.val.timestamp = TickStep
        /\ th[t].res.val.source = "Manual"
        /\ now = TickStep

----------------------------------------------------------------------------
(* Unknown source names, verified under SpecUpdate *)

\* C20: a source name that is not configured is skipped by runUpdate without
\* an error: it is never fetched, it is in neither successfulSources nor
\* failedSources, and every configured source of the request is still
\* fetched and reported.
C20_UnknownSourceSkipped ==
    \A t \in Threads :
        UpdateDone(t) =>
            /\ th[t].res.exc = ""
            /\ \A n \in 1..Len(th[t].srcs) :
                   IF th[t].srcs[n] \in Clients
                   THEN /\ InSeq(th[t].srcs[n], FetchedSources(th[t]))
                        /\ \/ InSeq(th[t].srcs[n], th[t].res.val.successful_sources)
                           \/ InSeq(th[t].srcs[n], th[t].res.val.failed_sources)
                   ELSE /\ ~InSeq(th[t].srcs[n], FetchedSources(th[t]))
                        /\ ~InSeq(th[t].srcs[n], th[t].res.val.successful_sources)
                        /\ ~InSeq(th[t].srcs[n], th[t].res.val.failed_sources)

C20_Witness ==
    \E t \in Threads :
        /\ UpdateDone(t)
        /\ th[t].srcs = <<"cryptocompare", "coingecko">>
        /\ FetchedSources(th[t]) = <<"coingecko">>
        /\ th[t].res.val.successful_sources = <<"coingecko">>
        /\ th[t].res.val.failed_sources = <<>>

----------------------------------------------------------------------------
(* The aggregate result, verified under SpecUpdate *)

\* a requested source is reported in exactly one of the two lists
InExactlyOne(s, source) ==
    InSeq(source, s.res.val.successful_sources)
        # InSeq(source, s.res.val.failed_sources)

EachConfiguredInOne(s) ==
    \A n \in 1..Len(s.srcs) :
        s.srcs[n] \in Clients => InExactlyOne(s, s.srcs[n])

\* C21 as stated: successfulSources is non-empty exactly when some requested
\* source returned a non-empty rate map, empty exactly when every requested
\* source failed or returned nothing, and each requested configured source
\* is in exactly one of successfulSources and failedSources.
C21_Original ==
    \A t \in Threads :
        UpdateDone(t) =>
            LET s == th[t] IN
            /\ (s.res.val.successful_sources # <<>>)
                   <=> \E n \in 1..Len(s.fetched) : FetchGave(s.fetched[n])
            /\ (s.res.val.successful_sources = <<>>)
                   <=> \A n \in 1..Len(s.fetched) : ~FetchGave(s.fetched[n])
            /\ EachConfiguredInOne(s)

\* C21 amended: successfulSources is non-empty exactly when some requested
\* source returned a non-empty rate map and both its snapshot replace and its
\* ledger append completed; it is empty exactly when every requested source
\* failed, returned nothing, or had a write raise; each requested configured
\* source is in exactly one of the two lists.
C21_SuccessIffFetchedAndPersisted ==
    \A t \in Threads :
        UpdateDone(t) =>
            LET s == th[t] IN
            /\ (s.res.val.successful_sources # <<>>)
                   <=> \E n \in 1..Len(s.fetched) :
                           FetchGave(s.fetched[n]) /\ Persisted(s.fetched[n])
            /\ (s.res.val.successful_sources = <<>>)
                   <=> \A n \in 1..Len(s.fetched) :
                           \/ ~FetchGave(s.fetched[n])
                           \/ ~Persisted(s.fetched[n])
            /\ EachConfiguredInOne(s)

C21_Witness ==
    \E t \in Threads :
        /\ UpdateDone(t)
        /\ TwoProviders(th[t])
        /\ FetchGave(th[t].fetched[1]) /\ ~Persisted(th[t].fetched[1])
        /\ FetchGave(th[t].fetched[2]) /\ Persisted(th[t].fetched[2])
        /\ th[t].res.val.failed_sources = <<th[t].srcs[1]>>
        /\ th[t].res.val.successful_sources = <<th[t].srcs[2]>>

----------------------------------------------------------------------------
(* A fetch without usable pairs, verified under SpecUpdate *)

\* the pairs a client derived from the provider's response: the base currency
\* against itself is added by ExchangeRateApiClient whatever the response held
DerivedPairs(f) ==
    IF f.source = "exchangerate"
    THEN ReturnedPairs(f) \ {PairKey(BASE_CURRENCY, BASE_CURRENCY)}
    ELSE ReturnedPairs(f)

FetchGaveNothing(f) == f.exc = "" /\ DerivedPairs(f) = {}

\* the run of thread t made one fetch, and it derived no pair
OnlyFetchGaveNothing(t) ==
    /\ UpdateDone(t)
    /\ Len(th[t].srcs) = 1
    /\ Len(th[t].fetched) = 1
    /\ FetchGaveNothing(th[t].fetched[1])

\* C22 as stated: for either provider, a fetch that completes without error
\* and yields no usable pair from the response is recorded in failedSources,
\* adds nothing to totalRatesMerged, and leaves the snapshot and the ledger
\* as they were.
C22_Original ==
    \A t \in Threads :
        OnlyFetchGaveNothing(t) =>
            /\ th[t].res.val.failed_sources = th[t].srcs
            /\ th[t].res.val.successful_sources = <<>>
            /\ th[t].res.val.total_rates = 0
            /\ files[RATES_FILE_PATH] = th[t].pre.rates
            /\ files[HISTORY_FILE_PATH] = th[t].pre.hist

----------------------------------------------------------------------------
(* The scheduler's start and stop, verified under SpecSched *)

StartDone(t) == th[t].op = "start" /\ th[t].pc = "done"
StopDone(t) == th[t].op = "stop" /\ th[t].pc = "done"

\* every job that can still fire, and the ids of the recurring ones
AllJobs(s) == LiveJobs(s.scheduler) \o s.others
RecurringIds(s) ==
    LET recurring == SelectSeq(AllJobs(s), LAMBDA j : j.trigger = "interval")
    IN  [n \in DOMAIN recurring |-> recurring[n].id]
\* the immediate refreshes of the current start: waiting, or submitted
Immediate(s) ==
    Len(SelectSeq(AllJobs(s), LAMBDA j : j.id = "initial_update")) + s.immediate

\* C23: start() on a Running scheduler leaves it Running with the same
\* registered jobs and no further immediate refresh; stop() on a Stopped
\* scheduler changes nothing; stop() on a Running scheduler cancels all jobs
\* and yields Stopped, and start() on a Stopped scheduler, stopped before or
\* not, yields Running with the two recurring jobs again.
C23_StartStopIdempotent ==
    \A t \in Threads :
        /\ (StartDone(t) /\ th[t].was.is_running) =>
              /\ sched.is_running
              /\ RecurringIds(sched) = RecurringIds(th[t].was)
              /\ Immediate(sched) = Immediate(th[t].was)
        /\ (StopDone(t) /\ ~th[t].was.is_running) => sched = th[t].was
        /\ (StopDone(t) /\ th[t].was.is_running) =>
              /\ ~sched.is_running
              /\ AllJobs(sched) = <<>>
        /\ (StartDone(t) /\ ~th[t].was.is_running) =>
              /\ sched.is_running
              /\ RecurringIds(sched) = <<"rates_update", "data_cleanup">>

\* start() called on a scheduler started a day into the run: nothing changes
C23_Witness ==
    \E t \in Threads :
        /\ StartDone(t)
        /\ th[t].was.is_running
        /\ sched = th[t].was
        /\ now > 0
        /\ sched.scheduler.jobs[1].next_run_time = now + UPDATE_INTERVAL_MINUTES * 60

----------------------------------------------------------------------------
(* What start() sets going, verified under SpecStart *)

\* the recurring jobs as (id, interval in seconds)
RecurringJobs(s) ==
    LET recurring == SelectSeq(AllJobs(s), LAMBDA j : j.trigger = "interval")
    IN  [n \in DOMAIN recurring |-> <<recurring[n].id, recurring[n].seconds>>]

StartedFromStopped(t) == StartDone(t) /\ ~th[t].was.is_running

\* what start() from Stopped leaves: Running, the two recurring jobs, one
\* immediate refresh
StartRegisters ==
    \A t \in Threads :
        StartedFromStopped(t) =>
            /\ sched.is_running
            /\ RecurringJobs(sched) =
                   <<<<"rates_update", UPDATE_INTERVAL_MINUTES * 60>>,
                     <<"data_cleanup", CLEANUP_INTERVAL_HOURS * 3600>>>>
            /\ Immediate(sched) = 1

\* the immediate refresh waits to be submitted; it runs run_update over the
\* default sources on the executor's thread
ImmediatePending ==
    \E n \in DOMAIN LiveJobs(sched.scheduler) :
        LiveJobs(sched.scheduler)[n].id = "initial_update"
ImmediateRuns ==
    /\ th[Worker].job = "initial_update"
    /\ th[Worker].op = "update"
    /\ th[Worker].srcs = DefaultSources
    /\ th[Worker].was.scheduler.jobs[3].next_run_time = now

\* stop() has shut the BackgroundScheduler down
ShutDown == sched.scheduler # None /\ sched.scheduler.state = "stopped"

\* C24 as stated: start() from Stopped registers exactly the refresh job at
\* the configured interval and the 24-hour prune job, moves to Running and
\* causes exactly one immediate refresh over all sources, which under
\* fairness eventually executes.
C24_Original ==
    /\ []StartRegisters
    /\ ImmediatePending ~> ImmediateRuns

\* C24 amended: the same, and the immediate refresh eventually executes
\* unless stop() shuts the scheduler down before the refresh was submitted.
C24_ImmediateRefreshUnlessStopped ==
    /\ []StartRegisters
    /\ [](sched.immediate <= 1)
    /\ ImmediatePending ~> (ImmediateRuns \/ ShutDown)

\* the immediate refresh of a start from Stopped has run to its end
C24_Witness ==
    /\ StartedFromStopped(Main)
    /\ sched.immediate = 1
    /\ ~ImmediatePending
    /\ UpdateDone(Worker)
    /\ th[Worker].job = "initial_update"
    /\ Len(th[Worker].fetched) = 2

----------------------------------------------------------------------------
(* The scheduler's prune job and status, verified under SpecSched *)

\* the prune job has run to its end on thread t
CleanupJobDone(t) ==
    th[t].job = "data_cleanup" /\ th[t].pc = "done"

\* C25: each firing of the scheduler's prune job prunes the ledger with a
\* maximum age of 30 days: once the job has run, the ledger holds no record
\* older than 30 days.
C25_Original ==
    \A t \in Threads :
        CleanupJobDone(t) =>
            \A n \in DOMAIN LedgerOf(files[HISTORY_FILE_PATH]) :
                ~Older(LedgerOf(files[HISTORY_FILE_PATH])[n], 30)

StatusDone(t) == th[t].op = "status" /\ th[t].pc = "done"

\* the snapshot file's lastRefresh, and whether its age is under the TTL
SnapshotLastRefresh == get_current_rates(files).val.last_refresh
SnapshotFresh ==
    /\ SnapshotLastRefresh # None
    /\ now - str_to_datetime(SnapshotLastRefresh) < TTL_SECONDS

\* C26 as stated: status() succeeds in both states; Stopped is reported as
\* stopped, Running as running = true with the number of active jobs, the
\* snapshot's lastRefresh and a freshness flag that is true exactly when the
\* snapshot's age is under the TTL.
C26_Original ==
    \A t \in Threads :
        StatusDone(t) =>
            /\ th[t].res.exc = ""
            /\ IF th[t].was.is_running
               THEN /\ th[t].res.val.is_running = TRUE
                    /\ th[t].res.val.jobs_count = Len(th[t].was.scheduler.jobs)
                    /\ th[t].res.val.last_update = SnapshotLastRefresh
                    /\ th[t].res.val.is_fresh = SnapshotFresh
               ELSE /\ th[t].res.val.is_running = FALSE
                    /\ th[t].res.val.status = "stopped"

----------------------------------------------------------------------------
(* stop() and the job in flight, verified under SpecSched *)

\* thread t runs a job of the scheduler that has not returned yet
InFlight(t) == th[t].job # "" /\ th[t].pc # "done"

\* a step leaves the job a thread is running in place
NotCancelled ==
    \A t \in Threads :
        InFlight(t) => /\ th'[t].job = th[t].job
                       /\ th'[t].op = th[t].op
                       /\ Len(th'[t].fetched) >= Len(th[t].fetched)

\* every job on a thread was submitted by a scheduler that was Running and
\* not shut down
SubmittedWhileRunning ==
    \A t \in Threads :
        th[t].job # "" =>
            /\ th[t].was.is_running
            /\ th[t].was.scheduler.state = "running"

\* a stop() of a Running scheduler has returned: the scheduler is Stopped,
\* and no job is in flight any more
StoppedAfterJobs ==
    \A t \in Threads :
        (StopDone(t) /\ th[t].was.is_running) =>
            /\ ~sched.is_running
            /\ \A w \in Threads : ~InFlight(w)

\* C27: stop() does not cancel a refresh in flight, which runs to its end
\* with its snapshot and ledger writes; after stop() was called no scheduled
\* refresh or prune job starts until the next start().
C27_StopLeavesJobInFlight ==
    /\ [][NotCancelled]_vars
    /\ []SubmittedWhileRunning
    /\ []StoppedAfterJobs

\* stop() was called while the refresh was fetching; the refresh has
\* replaced the snapshot and appended to the ledger since
C27_Witness ==
    /\ StopDone(Main)
    /\ th[Main].amid = {"ru_fetch"}
    /\ th[Main].pre.rates = Complete(InitSnapshot)
    /\ UpdateDone(Worker)
    /\ th[Worker].job = "initial_update"
    /\ th[Worker].res.val.successful_sources = <<"coingecko", "exchangerate">>
    /\ files[RATES_FILE_PATH].st = "ok"
    /\ files[RATES_FILE_PATH].doc.source = "ExchangeRate-API"
    /\ Len(LedgerOf(files[HISTORY_FILE_PATH])) = 3

----------------------------------------------------------------------------
(* Two writers of the snapshot, verified under SpecRace *)

\* the step is the rename of writer t's temporary file over the snapshot
Renames(t) == th[t].pc = "scr_replace" /\ th'[t].pc # "scr_replace"

\* the complete snapshot of what writer t was given
SnapshotOf(t) == Complete(SnapshotData(th[t].rates, th[t].meta, now))

\* C28: with two writers in writeSnapshot and no lock, the snapshot file is
\* changed by a writer's rename only, and each rename leaves exactly that
\* writer's complete snapshot: the file always holds the snapshot of the
\* writer that renamed last, never a mixture and never a partial document.
C28_LastRenameWins ==
    [][/\ \A t \in Threads : Renames(t) => files'[RATES_FILE_PATH] = SnapshotOf(t)
       /\ files'[RATES_FILE_PATH] # files[RATES_FILE_PATH]
              => \E t \in Threads : Renames(t)]_vars

\* both writers were called over the same snapshot and have returned; the
\* file holds the snapshot of the one, not of the other
C28_Witness ==
    /\ WriteDone("main") /\ WriteDone("job")
    /\ th["main"].pre.rates = Complete(InitSnapshot)
    /\ th["job"].pre.rates = Complete(InitSnapshot)
    /\ th["main"].res.exc = "" /\ th["job"].res.exc = ""
    /\ th["main"].rates = [BTC_USD |-> Float(2)]
    /\ th["job"].rates = [EUR_USD |-> Float(2), USD_EUR |-> Reciprocal(2)]
    /\ files[RATES_FILE_PATH] = SnapshotOf("job")

----------------------------------------------------------------------------
(* Two writers of the ledger, verified under SpecAppendRace *)

\* the steps of writer t: the load of the ledger, and the rename over it
LoadsLedger(t) == th[t].pc = "shr_load" /\ th'[t].pc = "shr_dump"
RenamesLedger(t) == th[t].pc = "shr_replace" /\ th'[t].pc # "shr_replace"
\* the records writer t appends
RecordsOf(t) == HistoricalRecords(th[t].rates, th[t].meta, now)

\* C29: with two writers in appendHistory, some interleaving of their load,
\* append and rewrite steps loses one writer's records; in every
\* interleaving the ledger file is changed by a rename only, and each rename
\* leaves a complete list: the ledger the renaming writer loaded, followed by
\* its records.
C29_LedgerRaceLosesOnlyWhole ==
    [][/\ \A t \in Threads :
            LoadsLedger(t) =>
                th'[t].data = LedgerOf(files[HISTORY_FILE_PATH]) \o RecordsOf(t)
       /\ \A t \in Threads :
            RenamesLedger(t) =>
                /\ files'[HISTORY_FILE_PATH] = Complete(th[t].data)
                /\ Len(th[t].data) >= Len(RecordsOf(t))
                /\ SubSeq(th[t].data, Len(th[t].data) - Len(RecordsOf(t)) + 1,
                          Len(th[t].data)) = RecordsOf(t)
       /\ files'[HISTORY_FILE_PATH] # files[HISTORY_FILE_PATH]
              => \E t \in Threads : RenamesLedger(t)]_vars

\* the lost update: both writers have returned without error, and the ledger
\* holds the ledger they found and the records of "job" only
C29_Witness ==
    /\ AppendDone("main") /\ AppendDone("job")
    /\ th["main"].res.exc = "" /\ th["job"].res.exc = ""
    /\ th["main"].rates = [BTC_USD |-> Float(3)]
    /\ th["job"].rates = [EUR_USD |-> Float(2), USD_EUR |-> Reciprocal(2)]
    /\ th["main"].pre.hist = Complete(InitLedger)
    /\ th["job"].pre.hist = Complete(InitLedger)
    /\ files[HISTORY_FILE_PATH] = Complete(InitLedger \o RecordsOf("job"))

----------------------------------------------------------------------------
(* The secondary cache and the snapshot, verified under SpecStore *)

\* C30: the secondary cache resolve consults is a store of its own, apart
\* from the snapshot: a writeSnapshot leaves what the secondary cache holds
\* as it was, and its entries are looked up there, not in the snapshot file.
C30_Original ==
    \A t \in Threads :
        WriteDone(t) =>
            db_read(files, "rates") = db_read(FilesBefore(t), "rates")

----------------------------------------------------------------------------
(* SourceClient.fetch_rates called on its own *)

\* client.fetch_rates() of one of the two configured clients: the call and
\* its outcome, with the answer the transport gave kept for the properties
CallFetch(t, source) ==
    /\ th[t].op = "idle"
    /\ \E resp \in HttpResponses(source) :
         th' = [th EXCEPT ![t] =
                  Done([Called(t, "fetch", "fetch") EXCEPT
                           !.srcs = <<source>>,
                           !.fetched = <<[source |-> source, resp |-> resp]>>],
                       fetch_rates(source, resp))]
    /\ UNCHANGED <<dirExists, files, now, sched>>

\* the clients of updater.py lines 18-21, each called directly
NextFetch ==
    \/ Tick
    \/ \E source \in {"coingecko", "exchangerate"} : CallFetch(Main, source)
    \/ Finish(Main)

SpecFetch == Init /\ [][NextFetch]_vars

FetchDone(t) == th[t].op = "fetch" /\ th[t].pc = "done"
\* the answer the finished fetch of t was given
Answer(t) == th[t].fetched[1].resp
\* the failures of a fetch: of the transport (timeout, connection, 429, 401,
\* another HTTP status, another request error, a body that is no JSON) and,
\* for the fiat provider, a result other than "success"
FetchFails(t) ==
    \/ Answer(t).kind # "ok"
    \/ /\ th[t].srcs[1] = "exchangerate"
       /\ Get(Answer(t).data, "result", "") # "success"

----------------------------------------------------------------------------
(* Record ids *)

Ledger == LedgerOf(files[HISTORY_FILE_PATH])
SamePairAndSecond(a, b) ==
    /\ a.from_currency = b.from_currency
    /\ a.to_currency = b.to_currency
    /\ str_to_datetime(a.timestamp) = str_to_datetime(b.timestamp)

----------------------------------------------------------------------------
(* The live refresh of the resolver *)

\* a fetch of the refresh of t returned a rate for the pair t asked for
RefreshFetchedPair(t) ==
    \E n \in DOMAIN th[t].fetched :
        /\ th[t].fetched[n].exc = ""
        /\ currency_pair(th[t]) \in DOMAIN th[t].fetched[n].rates

\* C33 as stated: when resolve has gone to the live refresh and a provider
\* returned a rate for the pair during it, resolve returns an entry for the
\* pair, whichever provider it was and whatever the others did.
C33_Original ==
    \A t \in Threads :
        (ResolveDone(t) /\ KnownDistinct(t) /\ RefreshAttempted(t)
            /\ RefreshFetchedPair(t)) => th[t].res.exc = ""

----------------------------------------------------------------------------
(* The write-through of one source *)

\* C34 as stated: the write-through is all-or-nothing per source: a source in
\* successfulSources had both its snapshot replace and its ledger append
\* completed, and a source in failedSources, one whose snapshot or ledger
\* write failed included, changed neither the snapshot nor the ledger; a run
\* with no successful source leaves both files as it found them.
C34_Original ==
    \A t \in Threads :
        UpdateDone(t) =>
            /\ \A n \in DOMAIN th[t].fetched :
                   LET f == th[t].fetched[n] IN
                   /\ InSeq(f.source, th[t].succ) => Persisted(f)
                   /\ InSeq(f.source, th[t].failed) =>
                          f.snapshot # "ok" /\ f.ledger # "ok"
            /\ th[t].succ = <<>> =>
                   /\ files[RATES_FILE_PATH] = th[t].pre.rates
                   /\ files[HISTORY_FILE_PATH] = th[t].pre.hist

----------------------------------------------------------------------------
(* The errors of the resolver *)

\* C35 as stated: for known distinct codes resolve fails only with
\* ApiRequestFailed or RateUnavailable; a missing or corrupt snapshot file is
\* a cache miss that leads to the live refresh; no error of reading the cache
\* files reaches the caller.
C35_Original ==
    \A t \in Threads :
        (ResolveDone(t) /\ KnownDistinct(t)) =>
            /\ th[t].res.exc \in {"", "ApiRequestError", "RateUnavailable"}
            /\ th[t].pre.rates.st \in {"missing", "corrupt"} => RefreshAttempted(t)

----------------------------------------------------------------------------
(* The first update in a new installation *)

\* the run of t began where neither the data files nor their directory
\* existed, and the directory has not been made since
ColdStart(t) ==
    /\ th[t].pre.rates = Missing
    /\ th[t].pre.hist = Missing
    /\ ~dirExists

\* C36 as stated: from a cold start, with neither the snapshot file nor its
\* directory, a runUpdate in which a provider returned a non-empty rate map
\* persists the snapshot with its pairs, appends its ledger records and
\* records the source as successful.
C36_Original ==
    \A t \in Threads :
        (UpdateDone(t) /\ ColdStart(t)) =>
            \A n \in DOMAIN th[t].fetched :
                FetchGave(th[t].fetched[n]) =>
                    /\ Persisted(th[t].fetched[n])
                    /\ InSeq(th[t].fetched[n].source, th[t].succ)

----------------------------------------------------------------------------
(* The cutoff of pruning *)

\* C37 as stated: pruneHistory(maxAgeDays) never removes a record whose
\* timestamp is not older than now - maxAgeDays: a record exactly at the
\* cutoff is still in the ledger afterwards, and is not counted as removed.
C37_Original ==
    \A t \in Threads :
        (PruneDone(t) /\ th[t].pre.hist.st = "ok") =>
            /\ \A n \in DOMAIN th[t].pre.hist.doc :
                   ~Older(th[t].pre.hist.doc[n], th[t].max_age_days)
                       => InSeq(th[t].pre.hist.doc[n], Ledger)
            /\ th[t].res.exc = "" =>
                   th[t].res.val <= Len(th[t].pre.hist.doc)
                       - Len(NotOlder(th[t].pre.hist.doc, th[t].max_age_days))

----------------------------------------------------------------------------
(* The shape of the snapshot *)

\* C38: every snapshot in the snapshot file is uniform: each of its pair
\* entries has the snapshot's last_refresh as updated_at and the snapshot's
\* source as source, and no key beginning with an underscore is a pair.
C38_SnapshotUniform ==
    files[RATES_FILE_PATH].st = "ok" =>
        LET snapshot == files[RATES_FILE_PATH].doc IN
        \A pair \in DOMAIN snapshot.pairs :
            /\ snapshot.pairs[pair].updated_at = snapshot.last_refresh
            /\ snapshot.pairs[pair].source = snapshot.source
            /\ ~StartsWithUnderscore(pair)
\* a write of a rate map that holds the metadata key beside a pair has
\* returned, after the clock moved on from the snapshot found at the start
C38_Witness ==
    /\ WriteDone(Main)
    /\ th[Main].res.exc = ""
    /\ "_meta" \in DOMAIN th[Main].rates
    /\ files[RATES_FILE_PATH].st = "ok"
    /\ DOMAIN files[RATES_FILE_PATH].doc.pairs = {"USD_USD"}
    /\ str_to_datetime(files[RATES_FILE_PATH].doc.last_refresh) = TickStep

----------------------------------------------------------------------------
(* PortfolioManager: usecases.py lines 106-214; balances are whole numbers *)

\* db.find_one("portfolios", user_id=user_id)
find_one(fs, entity, user_id) ==
    LET data == db_read(fs, entity)
    IN  IF data.exc # "" THEN data
        ELSE LET found == SelectSeq(data.val, LAMBDA item : item.user_id = user_id)
             IN  Return(IF Len(found) > 0 THEN found[1] ELSE None)

\* get_user_portfolio: the wallets of the user, currency code -> balance
get_user_portfolio(fs, user_id) ==
    LET portfolio_data == find_one(fs, "portfolios", user_id)
    IN  IF portfolio_data.exc # "" THEN portfolio_data
        ELSE IF portfolio_data.val = None THEN Raise("PortfolioNotFoundError")
        ELSE Return([c \in DOMAIN portfolio_data.val.wallets |->
                        Get(portfolio_data.val.wallets[c], "balance", 0)])

\* core/models.py Wallet.deposit and Wallet.withdraw
deposit(balance, amount) ==
    IF amount <= 0 THEN Raise("ValueError") ELSE Return(balance + amount)
withdraw(balance, amount) ==
    IF amount <= 0 THEN Raise("ValueError")
    ELSE IF amount > balance THEN Raise("InsufficientFundsError")
    ELSE Return(balance - amount)

\* save_user_portfolio, lines 124-128, and the item.update of db.update
wallets_data(wallets) ==
    [c \in DOMAIN wallets |-> [currency_code |-> c, balance |-> wallets[c]]]
Updated(data, user_id, wallets) ==
    [n \in DOMAIN data |->
        IF data[n].user_id = user_id
        THEN [data[n] EXCEPT !.wallets = wallets_data(wallets)]
        ELSE data[n]]

\* the users, codes and amounts buy_currency and sell_currency are called with
TradeInputs ==
    [user_id : {1, 2}, currency_code : {"BTC", "XYZ"}, amount : {0, 1, 2}]

\* the call; a purchase is made only while the balance the portfolio file
\* holds for the wallet stays within MaxBalance
CallTrade(t, op, user_id, currency_code, amount) ==
    LET file == files[PORTFOLIOS_FILE_PATH]
        found == SelectSeq(file.doc, LAMBDA item : item.user_id = user_id)
        balance == IF file.st # "ok" THEN 0
                   ELSE IF Len(found) = 0 THEN 0
                   ELSE IF currency_code \notin DOMAIN found[1].wallets THEN 0
                   ELSE found[1].wallets[currency_code].balance
    IN
    /\ th[t].op = "idle"
    /\ op = "buy" => balance + amount <= MaxBalance
    /\ th' = [th EXCEPT ![t] =
                [Called(t, op, IF op = "buy" THEN "buy_begin" ELSE "sell_begin")
                    EXCEPT !.user_id = user_id, !.amount = amount,
                           !.from = currency_code, !.to = "USD",
                           !.pre = [rates |-> files[RATES_FILE_PATH],
                                    hist |-> files[HISTORY_FILE_PATH],
                                    portfolios |-> files[PORTFOLIOS_FILE_PATH]]]]
    /\ UNCHANGED <<dirExists, files, now, sched>>

\* the decorated method returns or raises: log_action re-raises what it logs
TradeEnded(s, res) == [Done(s, res) EXCEPT !.op = s.op \o "_ended"]

\* buy_currency lines 141-154: the checks, the portfolio loaded, the wallet
\* added if missing, the deposit
BuyBegin(t) ==
    LET s == th[t]
        portfolio == get_user_portfolio(files, s.user_id)
        code == s.from
        wallets == IF code \notin DOMAIN portfolio.val
                   THEN Put(portfolio.val, upper(code), 0) ELSE portfolio.val
        wallet == Get(wallets, upper(code), None)
    IN
    /\ s.pc = "buy_begin"
    /\ th' = [th EXCEPT ![t] =
                IF s.amount <= 0 THEN TradeEnded(s, Raise("ValueError"))
                ELSE IF get_currency(code).exc # ""
                THEN TradeEnded(s, get_currency(code))
                ELSE IF portfolio.exc # "" THEN TradeEnded(s, portfolio)
                ELSE IF deposit(wallet, s.amount).exc # ""
                THEN TradeEnded(s, deposit(wallet, s.amount))
                ELSE [s EXCEPT !.pc = "tr_save", !.old_balance = wallet,
                               !.wallets = Put(wallets, upper(code),
                                               deposit(wallet, s.amount).val)]]
    /\ UNCHANGED <<dirExists, files, now, sched>>

\* sell_currency lines 181-193: the checks, the portfolio loaded, the wallet
\* looked up, the withdrawal
SellBegin(t) ==
    LET s == th[t]
        portfolio == get_user_portfolio(files, s.user_id)
        code == s.from
        has_wallet == upper(code) \in DOMAIN portfolio.val
        wallet == Get(portfolio.val, upper(code), None)
    IN
    /\ s.pc = "sell_begin"
    /\ th' = [th EXCEPT ![t] =
                IF s.amount <= 0 THEN TradeEnded(s, Raise("ValueError"))
                ELSE IF get_currency(code).exc # ""
                THEN TradeEnded(s, get_currency(code))
                ELSE IF portfolio.exc # "" THEN TradeEnded(s, portfolio)
                ELSE IF ~has_wallet
                THEN TradeEnded(s, Raise("CurrencyNotFoundError"))
                ELSE IF withdraw(wallet, s.amount).exc # ""
                THEN TradeEnded(s, withdraw(wallet, s.amount))
                ELSE [s EXCEPT !.pc = "tr_save", !.old_balance = wallet,
                               !.wallets = Put(portfolio.val, upper(code),
                                               withdraw(wallet, s.amount).val)]]
    /\ UNCHANGED <<dirExists, files, now, sched>>

\* save_user_portfolio (lines 156, 195): db.update reads the file, replaces
\* the user's wallets and writes the file in place with open(path, "w"): the
\* write completes, fails with the file cut short, or fails before the file
\* is opened; after a completed write get_rate is called
TradeSave(t) ==
    LET s == th[t]
        data == db_read(files, "portfolios")
    IN
    /\ s.pc = "tr_save"
    /\ IF data.exc # ""
       THEN /\ th' = [th EXCEPT ![t] = TradeEnded(s, data)]
            /\ UNCHANGED <<files, dirExists>>
       ELSE IF ~\E n \in DOMAIN data.val : data.val[n].user_id = s.user_id
       THEN /\ th' = [th EXCEPT ![t] = [s EXCEPT !.pc = "gr_check"]]
            /\ UNCHANGED <<files, dirExists>>
       ELSE \/ /\ files' = [files EXCEPT ![PORTFOLIOS_FILE_PATH] =
                               Complete(Updated(data.val, s.user_id, s.wallets))]
               /\ dirExists' = TRUE
               /\ th' = [th EXCEPT ![t] = [s EXCEPT !.pc = "gr_check"]]
            \/ /\ files' = [files EXCEPT ![PORTFOLIOS_FILE_PATH] = Truncated]
               /\ dirExists' = TRUE
               /\ th' = [th EXCEPT ![t] = TradeEnded(s, Raise("DatabaseError"))]
            \/ /\ th' = [th EXCEPT ![t] = TradeEnded(s, Raise("DatabaseError"))]
               /\ UNCHANGED <<files, dirExists>>
    /\ UNCHANGED <<now, sched>>

\* lines 158-175 and 197-214: get_rate has ended; CurrencyNotFoundError and
\* ApiRequestError are caught, any other exception leaves the method, and a
\* rate of None fails in amount * exchange_rate
TradeReturn(t) ==
    LET s == th[t]
        result(exchange_rate) ==
            [currency |-> s.from, amount |-> s.amount,
             old_balance |-> s.old_balance,
             new_balance |-> s.wallets[upper(s.from)],
             exchange_rate |-> exchange_rate, user_id |-> s.user_id]
    IN
    /\ s.op \in {"buy", "sell"}
    /\ s.pc = "done"
    /\ th' = [th EXCEPT ![t] =
                IF s.res.exc \in {"CurrencyNotFoundError", "ApiRequestError"}
                THEN TradeEnded(s, Return(result(None)))
                ELSE IF s.res.exc # "" THEN TradeEnded(s, s.res)
                ELSE IF s.res.val.rate = None
                THEN TradeEnded(s, Raise("TypeError"))
                ELSE TradeEnded(s, Return(result(s.res.val.rate)))]
    /\ UNCHANGED <<dirExists, files, now, sched>>

\* the caller takes the outcome of buy_currency or sell_currency
TradeFinish(t) ==
    /\ th[t].op \in {"buy_ended", "sell_ended"}
    /\ Finish(t)

\* the portfolios an earlier session left: user 1 with a BTC wallet
InitPortfolios ==
    <<[user_id |-> 1, wallets |-> wallets_data([BTC |-> 2])]>>

\* a data directory with a ledger-less installation: the snapshot may be
\* missing, corrupt or complete, the portfolio file missing or complete
InitTrade ==
    /\ now = 0
    /\ th = [t \in Threads |-> Idle]
    /\ sched = ParserScheduler
    /\ dirExists = TRUE
    /\ \E r \in {Missing, Corrupt, Complete(InitSnapshot)},
          p \in {Missing, Complete(InitPortfolios)} :
         files = [f \in Paths |->
                    IF f = RATES_FILE_PATH THEN r
                    ELSE IF f = PORTFOLIOS_FILE_PATH THEN p ELSE Missing]

\* the trading commands of one session, and the refreshes their rate lookups
\* trigger
NextTrade ==
    \/ \E op \in {"buy", "sell"}, i \in TradeInputs :
          CallTrade(Main, op, i.user_id, i.currency_code, i.amount)
    \/ BuyBegin(Main)
    \/ SellBegin(Main)
    \/ TradeSave(Main)
    \/ ResolveSteps(Main)
    \/ UpdateSteps(Main)
    \/ TradeReturn(Main)
    \/ TradeFinish(Main)

SpecTrade == InitTrade /\ [][NextTrade]_vars

TradeDone(t) == th[t].op \in {"buy_ended", "sell_ended"} /\ th[t].pc = "done"

\* C39 as stated: when buy_currency or sell_currency ends with an error, the
\* persisted portfolio is as it was at the call: a call that raises saves no
\* balance change, also when the rate lookup after the balance update fails.
C39_Original ==
    \A t \in Threads :
        (TradeDone(t) /\ th[t].res.exc # "") =>
            files[PORTFOLIOS_FILE_PATH] = th[t].pre.portfolios

============================================================================
